---- MODULE Spec2Model ----
(***************************************************************************)
(* Job-lifecycle core of lip6tui: the two Textual applications HPCApp      *)
(* (OAR) and ConvApp (SLURM), their waiting screen (the tracker), the      *)
(* endpoint resolution _connect_to, and the session screen's tunnel.       *)
(*                                                                         *)
(* Framework semantics the code relies on (Textual):                       *)
(*  - @work(exclusive=True) cancels every worker of the same DOM node and  *)
(*    group before the new worker starts; all workers here use the default *)
(*    group, so the node alone decides (the app, or the waiting screen).   *)
(*  - cancelling an async worker raises CancelledError at its current      *)
(*    await; ssh.run catches Exception only, so the worker ends there and  *)
(*    the ssh child process is left to finish on its own.                  *)
(*  - a screen's timers and workers end when the screen leaves the stack;  *)
(*    a screen covered by another keeps its timers and workers.            *)
(*  - app.pop_screen() removes whatever screen is on top of the stack.     *)
(*  - the app's key bindings are live on every screen of the stack top.    *)
(***************************************************************************)
EXTENDS Integers, Sequences, FiniteSets, TLC

VARIABLES
    variant,      \* "hpc" (HPCApp, OAR) or "conv" (ConvApp, SLURM)
    alive,        \* the application process is running
    stack,        \* App._screen_stack above the dashboard, bottom first
    workers,      \* the WorkerManager's live workers
    sched,        \* the scheduler's state of each job (remote world)
    jobs,         \* App._jobs: the latest listing, job -> state word
    launched,     \* the launch form has been submitted
    display,      \* text of the waiting screen's #waiting-state
    polls,        \* number of _poll workers the 5 s timer has started
    pollProcs,    \* polls (by issue number) whose ssh child process still runs
    displaySeq,   \* which poll (by issue number) wrote `display` last
    pollLog,      \* what the last completed poll saw and did
    triggers,     \* calls of app.on_job_running made by the tracker
    abandoned,    \* action_stop_waiting has run
    res,          \* the latest endpoint resolution: its calls and outcome
    tunnels,      \* every tunnel process started, in order
    cancelCmds,   \* cancel commands sent to the scheduler
    note,         \* the latest notification
    exec,         \* the Remote Executor call in progress (SSHClient.run / run_sync)
    inp,          \* the remote command result handed to a command wrapper
    outp          \* what the command wrapper returned for it; in the dashboard
                  \* and query systems, the dashboard's tables and the query

vars == <<variant, alive, stack, workers, sched, jobs, launched, display, polls,
          pollProcs, displaySeq, pollLog, triggers, abandoned, res, tunnels, cancelCmds, note,
          exec, inp, outp>>

\* The application's part of the state.
appVars == <<variant, alive, stack, workers, sched, jobs, launched, display, polls,
             pollProcs, displaySeq, pollLog, triggers, abandoned, res, tunnels, cancelCmds,
             note>>

----------------------------------------------------------------------------
(* Bounds of the model.                                                    *)

MaxPolls == 3
MaxStack == 2
MaxTunnels == 1
MaxCancels == 1
MaxHandles == 2
MaxCloses == 2
MaxSessions == 2
MaxBytes == 2
MaxText == 3
MaxLines == 2
MaxDump == 3

(* Program constants.                                                      *)

UrlAttempts == 30
ListingFields == 8
MinFields == 4

Variants == {"hpc", "conv"}
TJ == "tracked"    \* the job the launch form submits
Jobs == {TJ}

----------------------------------------------------------------------------
(* The schedulers' state vocabulary.  The remote world holds an abstract   *)
(* state; each query prints it in the words of the scheduler.              *)

SchedStates == {"none", "pending", "running", "ended", "failed", "cancelled", "timeout"}

\* oarstat: the `state =` field.
OarWord(s) ==
    CASE s = "pending" -> "Waiting"
      [] s = "running" -> "Running"
      [] s = "ended" -> "Terminated"
      [] s \in {"failed", "cancelled", "timeout"} -> "Error"
      [] OTHER -> ""

\* squeue -o %T: the live queue, which also lists a job shortly after its end.
SqueueWord(s) ==
    CASE s = "pending" -> "PENDING"
      [] s = "running" -> "RUNNING"
      [] s = "ended" -> "COMPLETED"
      [] s = "failed" -> "FAILED"
      [] s = "cancelled" -> "CANCELLED"
      [] s = "timeout" -> "TIMEOUT"
      [] OTHER -> ""

\* sacct --format=State: the accounting record, consulted when squeue printed
\* nothing; the 10-character column prints "CANCELLED by <uid>" as "CANCELLED+".
SacctWord(s) ==
    CASE s = "pending" -> "PENDING"
      [] s = "running" -> "RUNNING"
      [] s = "ended" -> "COMPLETED"
      [] s = "failed" -> "FAILED"
      [] s = "cancelled" -> "CANCELLED+"
      [] s = "timeout" -> "TIMEOUT"
      [] OTHER -> ""

\* The words that mean the job is over, per scheduler.
TerminalWords(v) ==
    IF v = "hpc" THEN {"Terminated", "Error"}
    ELSE {"COMPLETED", "FAILED", "CANCELLED", "CANCELLED+", "TIMEOUT"}

RunningWord(v) == IF v = "hpc" THEN "Running" ELSE "RUNNING"

\* WaitingScreen._poll: the states it treats as the end of the job.
PollTerminal(v) ==
    IF v = "hpc" THEN {"Error", "Terminated"}
    ELSE {"FAILED", "CANCELLED", "TIMEOUT"}

----------------------------------------------------------------------------
(* Workers.  A worker is the coroutine of one @work method, parked at an   *)
(* await (pc); node is the DOM node it was started on.                     *)

Worker(node, fn, pc, job, n, seq) ==
    [node |-> node, fn |-> fn, pc |-> pc, job |-> job, n |-> n, seq |-> seq]

\* A worker started without exclusive=True joins the others.
work_shared(ws, w) == ws \cup {w}

\* @work(exclusive=True): the new worker replaces every worker of its node.
work_exclusive(ws, w) == {x \in ws : x.node # w.node} \cup {w}

PollWorkers == {w \in workers : w.fn = "_poll"}
ConnectWorkers(ws) == {w \in ws : w.fn = "_connect_to"}

(* Screens above the dashboard.                                            *)

Screen(kind, job, tun, act, list) ==
    [kind |-> kind, job |-> job, tun |-> tun, act |-> act, list |-> list]

LaunchScreen == Screen("launch", "", 0, "", {})
WaitingScreen(j) == Screen("waiting", j, 0, "", {})
SessionScreen(j, t) == Screen("session", j, t, "", {})
JobPickerScreen(list, act) == Screen("picker", "", 0, act, list)

Top == stack[Len(stack)]
TopIs(kind) == Len(stack) > 0 /\ Top.kind = kind
Mounted(kind) == \E i \in 1..Len(stack) : stack[i].kind = kind

\* App.pop_screen: the screen on top of the stack leaves it.
pop_screen(st) == SubSeq(st, 1, Len(st) - 1)

\* App.push_screen.
push_screen(st, scr) == Append(st, scr)

\* A screen that left the stack is unmounted: its workers are cancelled.
Unmounted(ws, st) ==
    IF \E i \in 1..Len(st) : st[i].kind = "waiting" THEN ws
    ELSE {w \in ws : w.node # "waiting"}

(* Endpoint resolution bookkeeping.                                        *)

NoRes == [job |-> "", nodeCalls |-> 0, out |-> "none", cancels0 |-> 0]

\* A resolution whose worker was cancelled ends without an outcome.
Settle(r, ws) ==
    IF r.out = "running" /\ ConnectWorkers(ws) = {}
    THEN [r EXCEPT !.out = "cancelled"]
    ELSE r

(* Names and URLs the remote queries print, as character sequences.        *)

NameChars == {"b", "i", "g", "1", "2", "-", "_", "."}

\* validators.is_name: ^[a-zA-Z0-9_.-]+$
is_name(value) == Len(value) > 0 /\ \A i \in 1..Len(value) : value[i] \in NameChars

NodeOutputs == {<<>>, <<"b", "1">>, <<"b", "1", "+", "b", "2">>}
UrlOutputs == {"", "http://b1:8888/lab"}

\* No executor call in progress; no wrapper input or output.
NoResult == [kind |-> "none", out |-> <<>>, err |-> <<>>, rc |-> 0]
NoOutcome == [start |-> TRUE, out |-> <<>>, err |-> <<>>, rc |-> 0]
NoCall == [form |-> "-", pc |-> "idle", proc |-> "none", outcome |-> NoOutcome,
           how |-> "-", spawned |-> 0, result |-> NoResult]
NoInput == [fn |-> "-", text |-> <<>>, err |-> <<>>, rc |-> 0, lines |-> <<>>]
NoOutput == [done |-> FALSE, id |-> <<>>, error |-> <<>>, notice |-> "", jobs |-> <<>>]

NoLog == [state |-> "-", popped |-> "-", trig |-> FALSE, note |-> <<"none", "">>]

----------------------------------------------------------------------------
(* The application after construction and on_mount: the dashboard alone    *)
(* and the first refresh_jobs in flight.                                   *)

RefreshWorker == Worker("app", "refresh_jobs", "fetch", "", 0, 0)

Init ==
    /\ variant \in Variants
    /\ alive = TRUE
    /\ stack = <<>>
    /\ workers = {RefreshWorker}
    /\ sched = [j \in Jobs |-> "none"]
    /\ jobs = [j \in Jobs |-> ""]
    /\ launched = FALSE
    /\ display = ""
    /\ polls = 0
    /\ pollProcs = {}
    /\ displaySeq = 0
    /\ pollLog = NoLog
    /\ triggers = 0
    /\ abandoned = FALSE
    /\ res = NoRes
    /\ tunnels = <<>>
    /\ cancelCmds = 0
    /\ note = <<"none", "">>
    /\ exec = NoCall
    /\ inp = NoInput
    /\ outp = NoOutput

\* The app's single-key bindings reach the app unless a text input has the
\* focus, as on the launch form.
AppKeys == alive /\ ~TopIs("launch")

----------------------------------------------------------------------------
(* Remote world.                                                           *)

SchedTerminal == IF variant = "hpc" THEN {"ended", "failed"}
                 ELSE {"ended", "failed", "cancelled", "timeout"}

\* The scheduler moves the tracked job: it starts, or it is over.
SchedStep ==
    /\ alive
    /\ sched[TJ] \in {"pending", "running"}
    /\ \E s \in SchedTerminal \cup (IF sched[TJ] = "pending" THEN {"running"} ELSE {}) :
          sched' = [sched EXCEPT ![TJ] = s]
    /\ UNCHANGED <<exec, inp, outp, variant, alive, stack, workers, jobs, launched, display, polls, pollProcs,
                   displaySeq, pollLog, triggers, abandoned, res, tunnels,
                   cancelCmds, note>>

\* A tunnel process exits: on its own (port in use, host unreachable) or
\* after a signal.
TunnelExit ==
    /\ alive
    /\ \E i \in 1..Len(tunnels) :
          /\ tunnels[i].st = "alive"
          /\ tunnels' = [tunnels EXCEPT ![i].st = "exited"]
    /\ UNCHANGED <<exec, inp, outp, variant, alive, stack, workers, sched, jobs, launched, display,
                   polls, pollProcs, displaySeq, pollLog, triggers, abandoned, res,
                   cancelCmds, note>>

----------------------------------------------------------------------------
(* Dashboard: refresh_jobs.                                                *)

\* fetch_jobs: the jobs the listing shows, with the scheduler's state word.
Listing ==
    [j \in Jobs |->
        IF sched[j] \in {"pending", "running"}
        THEN (IF variant = "hpc" THEN OarWord(sched[j]) ELSE SqueueWord(sched[j]))
        ELSE ""]

\* refresh_jobs(), up to its await of fetch_jobs.
refresh_jobs ==
    /\ workers' = work_exclusive(workers, RefreshWorker)
    /\ res' = Settle(res, workers')

\* set_interval(30.0, self.refresh_jobs)
RefreshTimer ==
    /\ alive
    /\ refresh_jobs
    /\ UNCHANGED <<exec, inp, outp, variant, alive, stack, sched, jobs, launched, display, polls, pollProcs,
                   displaySeq, pollLog, triggers, abandoned, tunnels, cancelCmds, note>>

action_refresh ==
    /\ AppKeys
    /\ refresh_jobs
    /\ UNCHANGED <<exec, inp, outp, variant, alive, stack, sched, jobs, launched, display, polls, pollProcs,
                   displaySeq, pollLog, triggers, abandoned, tunnels, cancelCmds, note>>

\* refresh_jobs after the await: rc != 0 or empty output gives no jobs.
RefreshReturn ==
    /\ alive
    /\ \E w \in workers :
          /\ w.fn = "refresh_jobs"
          /\ \E l \in {Listing, [j \in Jobs |-> ""]} : jobs' = l
          /\ workers' = workers \ {w}
    /\ UNCHANGED <<exec, inp, outp, variant, alive, stack, sched, launched, display, polls, pollProcs, displaySeq,
                   pollLog, triggers, abandoned, res, tunnels, cancelCmds, note>>

----------------------------------------------------------------------------
(* Launch form and launch_job.                                             *)

action_launch ==
    /\ AppKeys
    /\ Len(stack) < MaxStack
    /\ stack' = push_screen(stack, LaunchScreen)
    /\ UNCHANGED <<exec, inp, outp, variant, alive, workers, sched, jobs, launched, display, polls, pollProcs,
                   displaySeq, pollLog, triggers, abandoned, res, tunnels,
                   cancelCmds, note>>

\* LaunchScreen.action_cancel and the Cancel button.
LaunchCancel ==
    /\ alive
    /\ TopIs("launch")
    /\ stack' = pop_screen(stack)
    /\ workers' = Unmounted(workers, stack')
    /\ UNCHANGED <<exec, inp, outp, variant, alive, sched, jobs, launched, display, polls, pollProcs, displaySeq,
                   pollLog, triggers, abandoned, res, tunnels, cancelCmds, note>>

\* LaunchScreen._submit in jupyter mode, and launch_job up to its await.
LaunchSubmit ==
    /\ alive
    /\ TopIs("launch")
    /\ ~launched
    /\ launched' = TRUE
    /\ stack' = pop_screen(stack)
    /\ workers' = work_exclusive(Unmounted(workers, stack'),
                                 Worker("app", "launch_job", "submit", "", 0, 0))
    /\ res' = Settle(res, workers')
    /\ note' = <<"submitting", "">>
    /\ UNCHANGED <<exec, inp, outp, variant, alive, sched, jobs, display, polls, pollProcs, displaySeq, pollLog,
                   triggers, abandoned, tunnels, cancelCmds>>

\* The remote side of submit_jupyter_job: the scheduler takes the job and
\* prints its id, takes it and the output is lost, or refuses it.
SubmitRemote ==
    /\ alive
    /\ \E w \in workers :
          /\ w.fn = "launch_job" /\ w.pc = "submit"
          /\ \E o \in {"id", "lost", "refused"} :
                /\ sched' = IF o = "refused" THEN sched ELSE [sched EXCEPT ![TJ] = "pending"]
                /\ workers' = (workers \ {w}) \cup
                       {IF o = "id" THEN [w EXCEPT !.pc = "got_id", !.job = TJ]
                        ELSE [w EXCEPT !.pc = "got_err"]}
    /\ UNCHANGED <<exec, inp, outp, variant, alive, stack, jobs, launched, display, polls, pollProcs, displaySeq,
                   pollLog, triggers, abandoned, res, tunnels, cancelCmds, note>>

\* launch_job after the await: report the error, or push the waiting screen.
LaunchReturn ==
    /\ alive
    /\ \E w \in workers :
          /\ w.fn = "launch_job" /\ w.pc \in {"got_id", "got_err"}
          /\ workers' = workers \ {w}
          /\ IF w.pc = "got_err"
             THEN /\ note' = <<"submit_failed", "">>
                  /\ UNCHANGED <<stack, display>>
             ELSE /\ note' = <<"submitted", w.job>>
                  /\ stack' = push_screen(stack, WaitingScreen(w.job))
                  /\ display' = "PENDING"
    /\ UNCHANGED <<exec, inp, outp, variant, alive, sched, jobs, launched, polls, pollProcs, displaySeq, pollLog,
                   triggers, abandoned, res, tunnels, cancelCmds>>

----------------------------------------------------------------------------
(* Waiting screen: the tracker.                                            *)

FirstQuery == IF variant = "hpc" THEN "oarstat" ELSE "squeue"

\* The job id the mounted waiting screen was given (self._job_id).
WaitingJob == stack[CHOOSE i \in 1..Len(stack) : stack[i].kind = "waiting"].job

\* set_interval(5.0, self._poll): a new _poll worker, up to its first await.
PollTimer ==
    /\ alive
    /\ Mounted("waiting")
    /\ polls < MaxPolls
    /\ polls' = polls + 1
    /\ workers' = work_exclusive(workers,
                      Worker("waiting", "_poll", FirstQuery, WaitingJob, 0, polls + 1))
    /\ pollProcs' = pollProcs \cup {polls + 1}
    /\ UNCHANGED <<exec, inp, outp, variant, alive, stack, sched, jobs, launched, display, displaySeq,
                   pollLog, triggers, abandoned, res, tunnels, cancelCmds, note>>

\* A _poll that gives up on an empty answer: it dismisses the screen and
\* reports the failure.
PollApplyGivesUp(w, state) ==
    LET popped == state = RunningWord(variant) \/ state \in PollTerminal(variant)
                      \/ state = ""
        st1 == IF popped THEN pop_screen(stack) ELSE stack
        ws1 == Unmounted(workers \ {w}, st1)
    IN  /\ display' = state
        /\ displaySeq' = w.seq
        /\ stack' = st1
        /\ IF state = RunningWord(variant)
           THEN /\ workers' = work_exclusive(ws1,
                                 Worker("app", "on_job_running", "start", w.job, 0, 0))
                /\ triggers' = triggers + 1
                /\ note' = note
           ELSE /\ workers' = ws1
                /\ triggers' = triggers
                /\ note' = (IF popped THEN <<"failed", state>> ELSE note)
        /\ res' = Settle(res, workers')
        /\ pollLog' = [state |-> state,
                       popped |-> IF popped /\ Len(stack) > 0 THEN Top.kind ELSE "-",
                       trig |-> state = RunningWord(variant),
                       note |-> note']

\* WaitingScreen._poll after get_job_state returned `state`.
PollApply(w, state) ==
    LET popped == state = RunningWord(variant) \/ state \in PollTerminal(variant)
        st1 == IF popped THEN pop_screen(stack) ELSE stack
        ws1 == Unmounted(workers \ {w}, st1)
    IN  /\ display' = (IF state = "" THEN "PENDING" ELSE state)
        /\ displaySeq' = w.seq
        /\ stack' = st1
        /\ IF state = RunningWord(variant)
           THEN /\ workers' = work_exclusive(ws1,
                                 Worker("app", "on_job_running", "start", w.job, 0, 0))
                /\ triggers' = triggers + 1
                /\ note' = note
           ELSE /\ workers' = ws1
                /\ triggers' = triggers
                /\ note' = (IF popped THEN <<"failed", state>> ELSE note)
        /\ res' = Settle(res, workers')
        /\ pollLog' = [state |-> state,
                       popped |-> IF popped /\ Len(stack) > 0 THEN Top.kind ELSE "-",
                       trig |-> state = RunningWord(variant),
                       note |-> note']

\* hpc get_job_state: one oarstat call; no output when the call fails.
PollOarstat ==
    /\ alive
    /\ \E w \in workers :
          /\ w.fn = "_poll" /\ w.pc = "oarstat"
          /\ pollProcs' = pollProcs \ {w.seq}
          /\ \E state \in {"", OarWord(sched[w.job])} : PollApply(w, state)
    /\ UNCHANGED <<exec, inp, outp, variant, alive, sched, jobs, launched, polls, abandoned, tunnels,
                   cancelCmds>>

\* conv get_job_state: squeue first; empty output asks sacct.
PollSqueue ==
    /\ alive
    /\ \E w \in workers :
          /\ w.fn = "_poll" /\ w.pc = "squeue"
          /\ \E state \in {"", SqueueWord(sched[w.job])} :
                IF state = ""
                THEN /\ workers' = (workers \ {w}) \cup {[w EXCEPT !.pc = "sacct"]}
                     /\ UNCHANGED <<stack, display, pollProcs, displaySeq, pollLog,
                                    triggers, res, note>>
                ELSE /\ pollProcs' = pollProcs \ {w.seq}
                     /\ PollApply(w, state)
    /\ UNCHANGED <<exec, inp, outp, variant, alive, sched, jobs, launched, polls, abandoned, tunnels,
                   cancelCmds>>

PollSacct ==
    /\ alive
    /\ \E w \in workers :
          /\ w.fn = "_poll" /\ w.pc = "sacct"
          /\ pollProcs' = pollProcs \ {w.seq}
          /\ \E state \in {"", SacctWord(sched[w.job])} : PollApply(w, state)
    /\ UNCHANGED <<exec, inp, outp, variant, alive, sched, jobs, launched, polls, abandoned, tunnels,
                   cancelCmds>>

\* The ssh child of a cancelled _poll ends on its own; nobody reads its output.
OrphanExit ==
    /\ \E k \in pollProcs :
          /\ \A w \in workers : ~(w.fn = "_poll" /\ w.seq = k)
          /\ pollProcs' = pollProcs \ {k}
    /\ UNCHANGED <<exec, inp, outp, variant, alive, stack, workers, sched, jobs, launched, display,
                   polls, displaySeq, pollLog, triggers, abandoned, res, tunnels,
                   cancelCmds, note>>

\* A stop-waiting that also cancels the job on the scheduler.
action_stop_waiting_kills ==
    /\ alive
    /\ TopIs("waiting")
    /\ stack' = pop_screen(stack)
    /\ workers' = Unmounted(workers, stack')
    /\ note' = <<"still_queued", Top.job>>
    /\ abandoned' = TRUE
    /\ cancelCmds' = cancelCmds + 1
    /\ UNCHANGED <<exec, inp, outp, variant, alive, sched, jobs, launched, display, polls, pollProcs,
                   displaySeq, pollLog, triggers, res, tunnels>>

\* WaitingScreen.action_stop_waiting (Escape on the waiting screen).
action_stop_waiting ==
    /\ alive
    /\ TopIs("waiting")
    /\ stack' = pop_screen(stack)
    /\ workers' = Unmounted(workers, stack')
    /\ note' = <<"still_queued", Top.job>>
    /\ abandoned' = TRUE
    /\ UNCHANGED <<exec, inp, outp, variant, alive, sched, jobs, launched, display, polls, pollProcs, displaySeq,
                   pollLog, triggers, res, tunnels, cancelCmds>>

----------------------------------------------------------------------------
(* Endpoint resolution: on_job_running and _connect_to.                    *)

\* A _connect_to that is started without the id it was called with.
StartConnectStale(ws, j) ==
    /\ workers' = work_exclusive(ws, Worker("app", "_connect_to", "node", "", 0, 0))
    /\ res' = [job |-> "", nodeCalls |-> 0, out |-> "running", cancels0 |-> cancelCmds]

\* _connect_to(job_id), up to its await of get_job_node.
StartConnect(ws, j) ==
    /\ workers' = work_exclusive(ws, Worker("app", "_connect_to", "node", j, 0, 0))
    /\ res' = [job |-> j, nodeCalls |-> 0, out |-> "running", cancels0 |-> cancelCmds]

on_job_running ==
    /\ alive
    /\ \E w \in workers :
          /\ w.fn = "on_job_running"
          /\ note' = <<"running", w.job>>
          /\ StartConnect(workers \ {w}, w.job)
    /\ UNCHANGED <<exec, inp, outp, variant, alive, stack, sched, jobs, launched, display, polls, pollProcs,
                   displaySeq, pollLog, triggers, abandoned, tunnels, cancelCmds>>

\* _connect_to after get_job_node returned.
ConnectNode ==
    /\ alive
    /\ \E w \in workers :
          /\ w.fn = "_connect_to" /\ w.pc = "node"
          /\ \E node \in NodeOutputs :
                IF ~is_name(node)
                THEN /\ note' = <<"no_node", w.job>>
                     /\ workers' = workers \ {w}
                     /\ res' = [res EXCEPT !.nodeCalls = @ + 1, !.out = "no_node"]
                ELSE /\ note' = <<"waiting_jupyter", w.job>>
                     /\ workers' = (workers \ {w}) \cup {[w EXCEPT !.pc = "url"]}
                     /\ res' = [res EXCEPT !.nodeCalls = @ + 1]
    /\ UNCHANGED <<exec, inp, outp, variant, alive, stack, sched, jobs, launched, display, polls, pollProcs,
                   displaySeq, pollLog, triggers, abandoned, tunnels, cancelCmds>>

\* SessionScreen._start_tunnel: Popen gives a process and the tunnel label
\* is set to ACTIVE, or Popen raises, which leaves _tunnel None and sets the
\* label to FAILED.  Nothing else writes the label.  Every session's handle
\* is kept, in order of creation.
start_tunnel(ts, ok) ==
    Append(ts, [st |-> IF ok THEN "alive" ELSE "none", sig |-> 0, closes |-> 0,
                label |-> IF ok THEN "ACTIVE" ELSE "FAILED"])

\* One get_jupyter_url attempt of the loop; a URL ends the loop and pushes the
\* session screen, whose on_mount starts the tunnel.
ConnectUrlUpTo(cap) ==
    /\ alive
    /\ \E w \in workers :
          /\ w.fn = "_connect_to" /\ w.pc = "url"
          /\ \E url \in UrlOutputs, ok \in BOOLEAN :
                /\ url # "" => Len(tunnels) < cap
                /\ IF url = ""
                   THEN /\ ok
                        /\ workers' = (workers \ {w}) \cup {[w EXCEPT !.pc = "sleep"]}
                        /\ UNCHANGED <<stack, tunnels, res>>
                   ELSE /\ workers' = workers \ {w}
                        /\ res' = [res EXCEPT !.out = "session"]
                        /\ tunnels' = start_tunnel(tunnels, ok)
                        /\ stack' = push_screen(stack, SessionScreen(w.job, Len(tunnels')))
    /\ UNCHANGED <<exec, inp, outp, variant, alive, sched, jobs, launched, display, polls, pollProcs, displaySeq,
                   pollLog, triggers, abandoned, cancelCmds, note>>

ConnectUrl == ConnectUrlUpTo(MaxTunnels)

\* The loop running one attempt too many.
ConnectSleepExtra ==
    /\ alive
    /\ \E w \in workers :
          /\ w.fn = "_connect_to" /\ w.pc = "sleep"
          /\ IF w.n + 1 < UrlAttempts + 1
             THEN /\ workers' = (workers \ {w}) \cup {[w EXCEPT !.pc = "url", !.n = @ + 1]}
                  /\ UNCHANGED <<res, note>>
             ELSE /\ workers' = workers \ {w}
                  /\ res' = [res EXCEPT !.out = "no_url"]
                  /\ note' = <<"no_jupyter", "">>
    /\ UNCHANGED <<exec, inp, outp, variant, alive, stack, sched, jobs, launched, display, polls,
                   pollProcs, displaySeq, pollLog, triggers, abandoned, tunnels,
                   cancelCmds>>

\* Giving up that also cancels the job whose service did not start.
ConnectSleepCancels ==
    /\ alive
    /\ \E w \in workers :
          /\ w.fn = "_connect_to" /\ w.pc = "sleep"
          /\ IF w.n + 1 < UrlAttempts
             THEN /\ workers' = (workers \ {w}) \cup {[w EXCEPT !.pc = "url", !.n = @ + 1]}
                  /\ UNCHANGED <<res, note, cancelCmds>>
             ELSE /\ workers' = workers \ {w}
                  /\ res' = [res EXCEPT !.out = "no_url"]
                  /\ note' = <<"no_jupyter", "">>
                  /\ cancelCmds' = cancelCmds + 1
    /\ UNCHANGED <<exec, inp, outp, variant, alive, stack, sched, jobs, launched, display, polls,
                   pollProcs, displaySeq, pollLog, triggers, abandoned, tunnels>>

\* asyncio.sleep(2) after an empty attempt, then the next attempt or give up.
ConnectSleep ==
    /\ alive
    /\ \E w \in workers :
          /\ w.fn = "_connect_to" /\ w.pc = "sleep"
          /\ IF w.n + 1 < UrlAttempts
             THEN /\ workers' = (workers \ {w}) \cup {[w EXCEPT !.pc = "url", !.n = @ + 1]}
                  /\ UNCHANGED <<res, note>>
             ELSE /\ workers' = workers \ {w}
                  /\ res' = [res EXCEPT !.out = "no_url"]
                  /\ note' = <<"no_jupyter", "">>
    /\ UNCHANGED <<exec, inp, outp, variant, alive, stack, sched, jobs, launched, display, polls, pollProcs,
                   displaySeq, pollLog, triggers, abandoned, tunnels, cancelCmds>>

----------------------------------------------------------------------------
(* Dashboard actions: connect, kill, and the job picker.                   *)

RunningJobs == {j \in Jobs : jobs[j] = RunningWord(variant)}
ListedJobs == {j \in Jobs : jobs[j] # ""}

action_connect ==
    /\ AppKeys
    /\ IF RunningJobs = {}
       THEN /\ note' = <<"no_running", "">>
            /\ UNCHANGED <<stack, workers, res>>
       ELSE IF Cardinality(RunningJobs) = 1
       THEN /\ \E j \in RunningJobs : StartConnect(workers, j)
            /\ UNCHANGED <<stack, note>>
       ELSE /\ Len(stack) < MaxStack
            /\ stack' = push_screen(stack, JobPickerScreen(RunningJobs, "connect"))
            /\ UNCHANGED <<workers, res, note>>
    /\ UNCHANGED <<exec, inp, outp, variant, alive, sched, jobs, launched, display, polls, pollProcs, displaySeq,
                   pollLog, triggers, abandoned, tunnels, cancelCmds>>

action_kill ==
    /\ AppKeys
    /\ cancelCmds < MaxCancels
    /\ IF ListedJobs = {}
       THEN /\ note' = <<"no_jobs", "">>
            /\ UNCHANGED stack
       ELSE /\ Len(stack) < MaxStack
            /\ stack' = push_screen(stack, JobPickerScreen(ListedJobs, "kill"))
            /\ UNCHANGED note
    /\ UNCHANGED <<exec, inp, outp, variant, alive, workers, sched, jobs, launched, display, polls, pollProcs,
                   displaySeq, pollLog, triggers, abandoned, res, tunnels, cancelCmds>>

\* JobPickerScreen.on_data_table_row_selected
PickerSelect ==
    /\ alive
    /\ TopIs("picker")
    /\ stack' = pop_screen(stack)
    /\ \E j \in Top.list :
          IF Top.act = "connect"
          THEN StartConnect(Unmounted(workers, stack'), j)
          ELSE /\ workers' = work_exclusive(Unmounted(workers, stack'),
                                 Worker("app", "_kill_job", "cancel", j, 0, 0))
               /\ res' = Settle(res, workers')
    /\ UNCHANGED <<exec, inp, outp, variant, alive, sched, jobs, launched, display, polls, pollProcs, displaySeq,
                   pollLog, triggers, abandoned, tunnels, cancelCmds, note>>

\* JobPickerScreen: the Back button and Escape.
PickerBack ==
    /\ alive
    /\ TopIs("picker")
    /\ stack' = pop_screen(stack)
    /\ workers' = Unmounted(workers, stack')
    /\ UNCHANGED <<exec, inp, outp, variant, alive, sched, jobs, launched, display, polls, pollProcs, displaySeq,
                   pollLog, triggers, abandoned, res, tunnels, cancelCmds, note>>

\* JobPickerScreen: the Cancel All button.
PickerKillAll ==
    /\ alive
    /\ TopIs("picker")
    /\ Top.act = "kill"
    /\ stack' = pop_screen(stack)
    /\ workers' = work_exclusive(Unmounted(workers, stack'),
                      Worker("app", "_kill_all", "cancel", "", 0, 0))
    /\ res' = Settle(res, workers')
    /\ UNCHANGED <<exec, inp, outp, variant, alive, sched, jobs, launched, display, polls, pollProcs, displaySeq,
                   pollLog, triggers, abandoned, tunnels, cancelCmds, note>>

\* The scheduler after a cancel command for the jobs in `js`.
Cancelled(js) ==
    [j \in Jobs |-> IF j \in js /\ sched[j] \in {"pending", "running"}
                    THEN (IF variant = "hpc" THEN "failed" ELSE "cancelled")
                    ELSE sched[j]]

\* _kill_job / _kill_all after cancel_job / cancel_all_jobs returned: the
\* outcome is notified and refresh_jobs() is called.
KillReturn(fn, js) ==
    /\ alive
    /\ \E w \in workers :
          /\ w.fn = fn
          /\ sched' = Cancelled(IF fn = "_kill_job" THEN {w.job} ELSE js)
          /\ cancelCmds' = cancelCmds + 1
          /\ \E err \in BOOLEAN :
                note' = (IF err THEN <<"cancel_failed", w.job>> ELSE <<"cancelled", w.job>>)
          /\ workers' = work_exclusive(workers \ {w}, RefreshWorker)
          /\ res' = Settle(res, workers')
    /\ UNCHANGED <<exec, inp, outp, variant, alive, stack, jobs, launched, display, polls, pollProcs, displaySeq,
                   pollLog, triggers, abandoned, tunnels>>

_kill_job == KillReturn("_kill_job", {})

_kill_all == KillReturn("_kill_all", Jobs)

----------------------------------------------------------------------------
(* Session screen and its tunnel.                                          *)

\* hpc SessionScreen._cleanup, and the same two lines of conv's
\* action_disconnect: terminate() when _tunnel is set and poll() is None.
\* sig counts the signals sent to the process, closes the calls.
_cleanup(ts, t) ==
    [ts EXCEPT ![t].sig = IF ts[t].st = "alive" THEN @ + 1 ELSE @,
               ![t].closes = @ + 1]

\* SessionScreen.action_disconnect (Escape, or the Disconnect button).
action_disconnect ==
    /\ alive
    /\ TopIs("session")
    /\ tunnels' = _cleanup(tunnels, Top.tun)
    /\ stack' = pop_screen(stack)
    /\ workers' = Unmounted(workers, stack')
    /\ UNCHANGED <<exec, inp, outp, variant, alive, sched, jobs, launched, display, polls, pollProcs, displaySeq,
                   pollLog, triggers, abandoned, res, cancelCmds, note>>

\* Binding("q", "quit"): the app exits; its screens and workers end with it.
action_quit ==
    /\ AppKeys
    /\ alive' = FALSE
    /\ stack' = <<>>
    /\ workers' = {}
    /\ res' = Settle(res, workers')
    /\ UNCHANGED <<exec, inp, outp, variant, sched, jobs, launched, display, polls, pollProcs, displaySeq, pollLog,
                   triggers, abandoned, tunnels, cancelCmds, note>>

----------------------------------------------------------------------------

(* The tracker's system: one job is launched from the form and the waiting *)
(* screen polls it until it hands the job to endpoint resolution, followed *)
(* here up to the answer of query_node; the user may cover the waiting     *)
(* screen with the launch form, stop waiting, or quit, and the dashboard   *)
(* refreshes on its timer.                                                 *)

Next ==
    \/ SchedStep
    \/ RefreshTimer
    \/ RefreshReturn
    \/ action_launch
    \/ LaunchCancel
    \/ LaunchSubmit
    \/ SubmitRemote
    \/ LaunchReturn
    \/ PollTimer
    \/ PollOarstat
    \/ PollSqueue
    \/ PollSacct
    \/ OrphanExit
    \/ action_stop_waiting
    \/ on_job_running
    \/ ConnectNode
    \/ action_quit

Spec == Init /\ [][Next]_vars

(* The tracker of a job that runs: the waiting screen is mounted, the       *)
(* scheduler reports the job as running and goes on doing so, and the      *)
(* operator leaves the tracker alone.  The timer of the waiting screen      *)
(* fires every 5 seconds for as long as the screen is mounted; a remote    *)
(* call is answered within the interval (slow = 0) or takes longer than    *)
(* one interval (slow = 1, the field n of its worker), and every answered  *)
(* call gives the state the scheduler reports.  Polls are numbered round   *)
(* robin, so that the timer can fire without end.                          *)

ProgressInit ==
    /\ variant \in Variants
    /\ alive = TRUE
    /\ stack = <<WaitingScreen(TJ)>>
    /\ workers = {}
    /\ sched = [j \in Jobs |-> "running"]
    /\ jobs = [j \in Jobs |-> ""]
    /\ launched = TRUE
    /\ display = "PENDING"
    /\ polls = 0
    /\ pollProcs = {}
    /\ displaySeq = 0
    /\ pollLog = NoLog
    /\ triggers = 0
    /\ abandoned = FALSE
    /\ res = NoRes
    /\ tunnels = <<>>
    /\ cancelCmds = 0
    /\ note = <<"submitted", TJ>>
    /\ exec = NoCall
    /\ inp = NoInput
    /\ outp = NoOutput

\* set_interval(5.0, self._poll) firing once more: a new _poll worker, whose
\* remote call will be fast or slow.
PollTick ==
    /\ alive
    /\ Mounted("waiting")
    /\ \E slow \in {0, 1} :
          /\ polls' = (polls % MaxPolls) + 1
          /\ workers' = work_exclusive(workers,
                            Worker("waiting", "_poll", FirstQuery, WaitingJob, slow, polls'))
          /\ pollProcs' = pollProcs \cup {polls'}
    /\ UNCHANGED <<exec, inp, outp, variant, alive, stack, sched, jobs, launched, display, displaySeq,
                   pollLog, triggers, abandoned, res, tunnels, cancelCmds, note>>

\* The remote call of the _poll in flight is one that is answered within
\* the poll interval; the answer is what the scheduler reports (squeue
\* lists a running job, so the sacct fallback is not reached).
PollDue == \A w \in workers : w.fn = "_poll" => w.n = 0
Reported == pollLog'.state = RunningWord(variant)

DuePollOarstat == PollDue /\ PollOarstat /\ Reported
DuePollSqueue == PollDue /\ PollSqueue /\ Reported

ProgressNext ==
    \/ PollTick
    \/ DuePollOarstat
    \/ DuePollSqueue
    \/ OrphanExit
    \/ on_job_running
    \/ ConnectNode

\* The timer goes on firing; a call that is due returns; a started worker
\* runs.
ProgressSpec ==
    /\ ProgressInit
    /\ [][ProgressNext]_vars
    /\ WF_vars(PollTick)
    /\ WF_vars(DuePollOarstat)
    /\ WF_vars(DuePollSqueue)
    /\ WF_vars(on_job_running)
    /\ WF_vars(ConnectNode)

(* The life of one tracked job, from the launch form to the session: the   *)
(* submission, the polls, on_job_running and the whole of _connect_to.     *)

LifeNext ==
    \/ RefreshReturn
    \/ action_launch
    \/ LaunchSubmit
    \/ SubmitRemote
    \/ LaunchReturn
    \/ SchedStep
    \/ PollTimer
    \/ PollOarstat
    \/ PollSqueue
    \/ PollSacct
    \/ OrphanExit
    \/ on_job_running
    \/ ConnectNode
    \/ ConnectUrl
    \/ ConnectSleep

LifeSpec == Init /\ [][LifeNext]_vars

(* The dashboard's system: the app was started while the job of an earlier *)
(* session runs, and the first refresh has listed it; the user connects,   *)
(* kills, refreshes, disconnects and quits.                                *)

ResolveInit ==
    /\ variant \in Variants
    /\ alive = TRUE
    /\ stack = <<>>
    /\ workers = {}
    /\ sched = [j \in Jobs |-> "running"]
    /\ jobs = [j \in Jobs |-> RunningWord(variant)]
    /\ launched = TRUE
    /\ display = ""
    /\ polls = 0
    /\ pollProcs = {}
    /\ displaySeq = 0
    /\ pollLog = NoLog
    /\ triggers = 0
    /\ abandoned = FALSE
    /\ res = NoRes
    /\ tunnels = <<>>
    /\ cancelCmds = 0
    /\ note = <<"none", "">>
    /\ exec = NoCall
    /\ inp = NoInput
    /\ outp = NoOutput

ResolveNext ==
    \/ SchedStep
    \/ TunnelExit
    \/ RefreshTimer
    \/ action_refresh
    \/ RefreshReturn
    \/ ConnectNode
    \/ ConnectUrl
    \/ ConnectSleep
    \/ action_connect
    \/ action_kill
    \/ PickerSelect
    \/ PickerBack
    \/ PickerKillAll
    \/ _kill_job
    \/ _kill_all
    \/ action_disconnect
    \/ action_quit

ResolveSpec == ResolveInit /\ [][ResolveNext]_vars

(* The session screen's handle on its own: sessions mount and start their  *)
(* tunnel, the disconnect handler runs on a session (Escape and the        *)
(* Disconnect button both run it, and a second event may be handled before *)
(* the first has taken the screen away), and tunnel processes exit.        *)

TunnelInit ==
    /\ variant \in Variants
    /\ alive = TRUE
    /\ stack = <<>>
    /\ workers = {}
    /\ sched = [j \in Jobs |-> "running"]
    /\ jobs = [j \in Jobs |-> RunningWord(variant)]
    /\ launched = TRUE
    /\ display = ""
    /\ polls = 0
    /\ pollProcs = {}
    /\ displaySeq = 0
    /\ pollLog = NoLog
    /\ triggers = 0
    /\ abandoned = FALSE
    /\ res = NoRes
    /\ tunnels = <<>>
    /\ cancelCmds = 0
    /\ note = <<"none", "">>
    /\ exec = NoCall
    /\ inp = NoInput
    /\ outp = NoOutput

\* SessionScreen.on_mount
HandleOpen ==
    /\ Len(tunnels) < MaxHandles
    /\ \E ok \in BOOLEAN : tunnels' = start_tunnel(tunnels, ok)
    /\ UNCHANGED <<exec, inp, outp, variant, alive, stack, workers, sched, jobs, launched, display,
                   polls, pollProcs, displaySeq, pollLog, triggers, abandoned, res,
                   cancelCmds, note>>

\* The close of SessionScreen.action_disconnect on one session's handle.
HandleClose ==
    /\ \E i \in 1..Len(tunnels) :
          /\ tunnels[i].closes < MaxCloses
          /\ tunnels' = _cleanup(tunnels, i)
    /\ UNCHANGED <<exec, inp, outp, variant, alive, stack, workers, sched, jobs, launched, display,
                   polls, pollProcs, displaySeq, pollLog, triggers, abandoned, res,
                   cancelCmds, note>>

TunnelNext ==
    \/ HandleOpen
    \/ HandleClose
    \/ TunnelExit

TunnelSpec == TunnelInit /\ [][TunnelNext]_vars

(* Sessions on one port: the job runs and is listed; the user connects,    *)
(* also while a session screen is open, and disconnects.  Every session of *)
(* the job forwards the port of the job's one Jupyter URL.                 *)

SessionConnectUrl == ConnectUrlUpTo(MaxSessions)

PortNext ==
    \/ action_connect
    \/ ConnectNode
    \/ SessionConnectUrl
    \/ ConnectSleep
    \/ action_disconnect
    \/ TunnelExit

PortSpec == ResolveInit /\ [][PortNext]_vars

----------------------------------------------------------------------------
(* Remote Executor: SSHClient.run (awaited) and SSHClient.run_sync         *)
(* (blocking).  A call starts one local ssh process; the process exits     *)
(* with output and a status, or the timeout elapses first.                 *)

\* Bytes a process can print: an ASCII letter, \r, \n, and a byte that is
\* not valid UTF-8.
Bytes == {"a", "CR", "LF", "xFF"}
ByteSeqs == UNION {[1..n -> Bytes] : n \in 0..MaxBytes}
ExitCodes == {0, 1, 255}

\* What the process of a call does: it cannot be started, or it prints out
\* and err and exits with rc (unless the timeout comes first).
Outcomes ==
    [start : BOOLEAN, out : ByteSeqs, err : {b \in ByteSeqs : Len(b) <= 1}, rc : ExitCodes]

TimedOutText == <<"SSH command timed out">>
ExcText == <<"str(e)">>
DecodeErrText == <<"str(UnicodeDecodeError)">>

Value(out, err, rc) == [kind |-> "value", out |-> out, err |-> err, rc |-> rc]
Raised == [kind |-> "raised", out |-> <<>>, err |-> <<>>, rc |-> 0]

\* bytes.decode(errors="replace"): an invalid byte becomes U+FFFD.
decode_replace(bs) == [i \in 1..Len(bs) |-> IF bs[i] = "xFF" THEN "U+FFFD" ELSE bs[i]]

\* text=True decodes strictly: an invalid byte raises UnicodeDecodeError.
Decodable(bs) == \A i \in 1..Len(bs) : bs[i] # "xFF"

\* text=True reads with universal newlines: \r\n and \r become \n.
RECURSIVE universal_newlines(_)
universal_newlines(cs) ==
    IF cs = <<>> THEN <<>>
    ELSE IF cs[1] = "CR"
    THEN IF Len(cs) > 1 /\ cs[2] = "LF"
         THEN <<"LF">> \o universal_newlines(SubSeq(cs, 3, Len(cs)))
         ELSE <<"LF">> \o universal_newlines(Tail(cs))
    ELSE <<cs[1]>> \o universal_newlines(Tail(cs))

\* SSHClient.run: what the call returns for a process outcome.
run(o, timedOut) ==
    IF ~o.start THEN Value(<<>>, ExcText, 1)
    ELSE IF timedOut THEN Value(<<>>, TimedOutText, 1)
    ELSE Value(decode_replace(o.out), decode_replace(o.err), o.rc)

\* SSHClient.run_sync: subprocess.run(capture_output=True, text=True).
run_sync(o, timedOut) ==
    IF ~o.start THEN Value(<<>>, ExcText, 1)
    ELSE IF timedOut THEN Value(<<>>, TimedOutText, 1)
    ELSE IF ~(Decodable(o.out) /\ Decodable(o.err)) THEN Value(<<>>, DecodeErrText, 1)
    ELSE Value(universal_newlines(o.out), universal_newlines(o.err), o.rc)

Returned(form, o, timedOut) ==
    IF form = "run" THEN run(o, timedOut) ELSE run_sync(o, timedOut)

\* A caller invokes run or run_sync.
ExecCall ==
    /\ exec.pc = "idle"
    /\ \E form \in {"run", "run_sync"}, o \in Outcomes :
          exec' = [NoCall EXCEPT !.form = form, !.pc = "spawn", !.outcome = o]
    /\ UNCHANGED <<appVars, inp, outp>>

\* A start that lets the exception of the failed start reach the caller.
ExecSpawnRaises ==
    /\ exec.pc = "spawn"
    /\ IF exec.outcome.start
       THEN exec' = [exec EXCEPT !.pc = "wait", !.proc = "running", !.spawned = @ + 1]
       ELSE exec' = [exec EXCEPT !.pc = "done", !.how = "nostart", !.result = Raised]
    /\ UNCHANGED <<appVars, inp, outp>>

\* create_subprocess_exec / Popen: the process starts, or the start raises
\* and `except Exception` turns the exception into a result.
ExecSpawn ==
    /\ exec.pc = "spawn"
    /\ IF exec.outcome.start
       THEN exec' = [exec EXCEPT !.pc = "wait", !.proc = "running", !.spawned = @ + 1]
       ELSE exec' = [exec EXCEPT !.pc = "done", !.how = "nostart",
                                 !.result = Returned(exec.form, exec.outcome, FALSE)]
    /\ UNCHANGED <<appVars, inp, outp>>

\* The process exits before the timeout; communicate() returns its output.
ExecExit ==
    /\ exec.pc = "wait" /\ exec.proc = "running"
    /\ exec' = [exec EXCEPT !.pc = "done", !.how = "exit", !.proc = "reaped",
                            !.result = Returned(exec.form, exec.outcome, FALSE)]
    /\ UNCHANGED <<appVars, inp, outp>>

\* A timeout that returns without killing the process.
ExecTimeoutNoKill ==
    /\ exec.pc = "wait" /\ exec.proc = "running"
    /\ exec' = [exec EXCEPT !.pc = "done", !.how = "timeout",
                            !.result = Returned(exec.form, exec.outcome, TRUE)]
    /\ UNCHANGED <<appVars, inp, outp>>

\* A timeout that kills the process and starts the command once more.
ExecTimeoutRetries ==
    /\ exec.pc = "wait" /\ exec.proc = "running"
    /\ IF exec.spawned < 2
       THEN exec' = [exec EXCEPT !.spawned = @ + 1]
       ELSE exec' = [exec EXCEPT !.pc = "done", !.how = "timeout",
                                 !.proc = IF exec.form = "run" THEN "killed" ELSE "reaped",
                                 !.result = Returned(exec.form, exec.outcome, TRUE)]
    /\ UNCHANGED <<appVars, inp, outp>>

\* The timeout elapses while the process runs: run kills it and returns;
\* subprocess.run kills it, reaps it and raises TimeoutExpired.
ExecTimeout ==
    /\ exec.pc = "wait" /\ exec.proc = "running"
    /\ exec' = [exec EXCEPT !.pc = "done", !.how = "timeout",
                            !.proc = IF exec.form = "run" THEN "killed" ELSE "reaped",
                            !.result = Returned(exec.form, exec.outcome, TRUE)]
    /\ UNCHANGED <<appVars, inp, outp>>

\* The worker awaiting run is cancelled (superseded): CancelledError is no
\* Exception, so it leaves run; the process is left running.
ExecCancel ==
    /\ exec.form = "run" /\ exec.pc = "wait"
    /\ exec' = [exec EXCEPT !.pc = "cancelled", !.how = "cancelled"]
    /\ UNCHANGED <<appVars, inp, outp>>

\* The caller has taken the result; the client keeps nothing of the call.
ExecReturn ==
    /\ exec.pc \in {"done", "cancelled"}
    /\ exec' = NoCall
    /\ UNCHANGED <<appVars, inp, outp>>

ExecInit == TunnelInit

ExecNext ==
    \/ ExecCall
    \/ ExecSpawn
    \/ ExecExit
    \/ ExecTimeout
    \/ ExecCancel
    \/ ExecReturn

ExecSpec == ExecInit /\ [][ExecNext]_vars

----------------------------------------------------------------------------
(* Command wrappers: what commands.py makes of the (stdout, stderr, rc) of *)
(* a remote command.  Text is a sequence of characters; a listing is a     *)
(* sequence of lines.                                                      *)

Chars == {"1", "2", "x", " ", "LF"}
Digits == {"1", "2"}
Whitespace == {" ", "LF"}
Texts == UNION {[1..n -> Chars] : n \in 0..MaxText}
ErrTexts == {<<>>, <<" ">>, <<"e">>, <<"e", "LF">>}
DefaultSubmitError == <<"Failed to submit job">>

\* str.strip()
RECURSIVE lstrip(_)
lstrip(t) == IF t # <<>> /\ t[1] \in Whitespace THEN lstrip(Tail(t)) ELSE t

RECURSIVE rstrip(_)
rstrip(t) ==
    IF t # <<>> /\ t[Len(t)] \in Whitespace THEN rstrip(SubSeq(t, 1, Len(t) - 1)) ELSE t

strip(t) == rstrip(lstrip(t))

AllDigits(t) == t # <<>> /\ \A i \in 1..Len(t) : t[i] \in Digits

\* re.match(r"^\d+$", s): `$` also matches just before a final newline.
match_digits(t) ==
    \/ AllDigits(t)
    \/ Len(t) > 1 /\ t[Len(t)] = "LF" /\ AllDigits(SubSeq(t, 1, Len(t) - 1))

\* A submission that takes any non-empty output for the job id.
submit_unchecked(stdout, stderr) ==
    LET job_id == strip(stdout)
    IN  IF job_id = <<>>
        THEN [id |-> <<>>,
              error |-> IF strip(stderr) # <<>> THEN strip(stderr) ELSE DefaultSubmitError]
        ELSE [id |-> job_id, error |-> <<>>]

\* submit_jupyter_job after ssh.run returned (hpc and conv alike).
submit_jupyter_job(stdout, stderr) ==
    LET job_id == strip(stdout)
    IN  IF job_id = <<>> \/ ~match_digits(job_id)
        THEN [id |-> <<>>,
              error |-> IF strip(stderr) # <<>> THEN strip(stderr) ELSE DefaultSubmitError]
        ELSE [id |-> job_id, error |-> <<>>]

\* submit_custom_job after ssh.run returned (hpc and conv alike).
submit_custom_job(stdout, stderr) ==
    LET job_id == strip(stdout)
    IN  IF job_id = <<>> \/ ~match_digits(job_id)
        THEN [id |-> <<>>,
              error |-> IF strip(stderr) # <<>> THEN strip(stderr) ELSE DefaultSubmitError]
        ELSE [id |-> job_id, error |-> <<>>]

\* cancel_job / cancel_all_jobs: stderr.strip() if rc != 0 else "".
cancel_job(stderr, rc) == IF rc # 0 THEN strip(stderr) ELSE <<>>

cancel_all_jobs(stderr, rc) == IF rc # 0 THEN strip(stderr) ELSE <<>>

\* _kill_job / _kill_all: `if error:` chooses the notification.
kill_notice(error) == IF error # <<>> THEN "Cancel failed" ELSE "cancelled"

(* conv fetch_jobs: squeue prints one line per job, fields joined by "|".  *)
(* A line is given as its fields, that is as line.strip().split("|").      *)

SqueueFields == <<"id", "name", "RUNNING", "node", "0:01", "1:00", "0:59", "None", "more">>

SqueueLine(n, tag) == [i \in 1..n |-> IF i = 1 THEN tag ELSE SqueueFields[i]]

BlankLine == <<"">>

ConvLines ==
    {BlankLine} \cup {SqueueLine(n, tag) : n \in 1..(ListingFields + 1), tag \in {"7", "8"}}

ConvListings == UNION {[1..n -> ConvLines] : n \in 0..MaxLines}

\* SLURMJob built from a line with all the fields of the format.
FullJob(parts) ==
    [job_id |-> parts[1], name |-> parts[2], state |-> parts[3], node |-> parts[4],
     elapsed |-> parts[5], time_limit |-> parts[6], time_left |-> parts[7],
     reason |-> parts[8]]

\* SLURMJob built from a line with at least four fields.
ShortJob(parts) ==
    [job_id |-> parts[1], name |-> parts[2], state |-> parts[3], node |-> parts[4],
     elapsed |-> "", time_limit |-> "", time_left |-> "", reason |-> ""]

\* not stdout.strip()
BlankListing(lines) == \A i \in 1..Len(lines) : lines[i] = BlankLine

\* The loop of conv fetch_jobs over the lines.
RECURSIVE conv_lines(_)
conv_lines(lines) ==
    IF lines = <<>> THEN <<>>
    ELSE LET parts == Head(lines)
             rest == conv_lines(Tail(lines))
         IN  IF Len(parts) >= ListingFields THEN <<FullJob(parts)>> \o rest
             ELSE IF Len(parts) >= MinFields THEN <<ShortJob(parts)>> \o rest
             ELSE rest

\* A listing that is parsed whatever the exit status.
conv_fetch_jobs_any_rc(rc, lines) ==
    IF BlankListing(lines) THEN <<>> ELSE conv_lines(lines)

\* conv fetch_jobs after ssh.run returned.
conv_fetch_jobs(rc, lines) ==
    IF rc # 0 \/ BlankListing(lines) THEN <<>> ELSE conv_lines(lines)

(* hpc fetch_jobs: oarstat -f prints a header line "Job_Id: <id>" per job  *)
(* and "key = value" lines under it.  A line is given as its key and its   *)
(* value; the parser looks for "name =", "state =" and so on anywhere in   *)
(* the line, so the line "cpuset_name = v" is read as a name.              *)

OarKeys == {"Job_Id", "name", "state", "cpuset_name", "other"}
OarLines == [key : OarKeys, val : {"1", "2", "x"}] \cup {[key |-> "", val |-> ""]}
OarDumps == UNION {[1..n -> OarLines] : n \in 0..MaxDump}

\* re.match(r"Job_Id\s*:\s*(\d+)", line)
IsHeader(line) == line.key = "Job_Id" /\ line.val \in Digits

\* The field the elif chain assigns for a line ("-" for none).
FieldOf(line) ==
    IF line.key \in {"name", "cpuset_name"} THEN "name"
    ELSE IF line.key = "state" THEN "state"
    ELSE "-"

NoJob == [job_id |-> "", name |-> "", state |-> ""]

\* The for loop of parse_oarstat_full: the jobs flushed so far and `current`.
RECURSIVE oarstat_loop(_, _, _)
oarstat_loop(lines, flushed, current) ==
    IF lines = <<>> THEN [jobs |-> flushed, current |-> current]
    ELSE LET line == Head(lines)
         IN  IF IsHeader(line)
             THEN oarstat_loop(Tail(lines),
                               IF current # NoJob /\ current.job_id # ""
                               THEN Append(flushed, current) ELSE flushed,
                               [NoJob EXCEPT !.job_id = line.val])
             ELSE IF current = NoJob THEN oarstat_loop(Tail(lines), flushed, current)
             ELSE IF FieldOf(line) = "name"
             THEN oarstat_loop(Tail(lines), flushed, [current EXCEPT !.name = line.val])
             ELSE IF FieldOf(line) = "state"
             THEN oarstat_loop(Tail(lines), flushed, [current EXCEPT !.state = line.val])
             ELSE oarstat_loop(Tail(lines), flushed, current)

\* A parser that forgets the record still open at the end of the input.
parse_oarstat_unflushed(text) == oarstat_loop(text, <<>>, NoJob).jobs

\* parse_oarstat_full
parse_oarstat_full(text) ==
    LET r == oarstat_loop(text, <<>>, NoJob)
    IN  IF r.current # NoJob /\ r.current.job_id # ""
        THEN Append(r.jobs, r.current) ELSE r.jobs

BlankDump(lines) == \A i \in 1..Len(lines) : lines[i].key = ""

\* hpc fetch_jobs after ssh.run returned.
hpc_fetch_jobs(rc, lines) ==
    IF rc # 0 \/ BlankDump(lines) THEN <<>> ELSE parse_oarstat_full(lines)

(* The wrappers applied to the results a remote command can give.          *)

Input(fn, text, err, rc, lines) ==
    [fn |-> fn, text |-> text, err |-> err, rc |-> rc, lines |-> lines]

SubmitInputs ==
    {Input(fn, t, e, 0, <<>>) :
        fn \in {"submit_jupyter_job", "submit_custom_job"}, t \in Texts, e \in ErrTexts}

CancelInputs ==
    {Input(fn, <<>>, e, rc, <<>>) :
        fn \in {"cancel_job", "cancel_all_jobs"}, e \in ErrTexts, rc \in {0, 1}}

ConvFetchInputs == {Input("fetch_jobs", <<>>, <<>>, rc, l) : rc \in {0, 1}, l \in ConvListings}

HpcFetchInputs == {Input("fetch_jobs", <<>>, <<>>, rc, l) : rc \in {0, 1}, l \in OarDumps}

WrapInit ==
    /\ variant \in Variants
    /\ alive = TRUE
    /\ stack = <<>>
    /\ workers = {}
    /\ sched = [j \in Jobs |-> "none"]
    /\ jobs = [j \in Jobs |-> ""]
    /\ launched = FALSE
    /\ display = ""
    /\ polls = 0
    /\ pollProcs = {}
    /\ displaySeq = 0
    /\ pollLog = NoLog
    /\ triggers = 0
    /\ abandoned = FALSE
    /\ res = NoRes
    /\ tunnels = <<>>
    /\ cancelCmds = 0
    /\ note = <<"none", "">>
    /\ exec = NoCall
    /\ \/ inp \in SubmitInputs
       \/ inp \in CancelInputs
       \/ variant = "conv" /\ inp \in ConvFetchInputs
       \/ variant = "hpc" /\ inp \in HpcFetchInputs
    /\ outp = NoOutput

WrapSubmit ==
    /\ ~outp.done
    /\ inp.fn \in {"submit_jupyter_job", "submit_custom_job"}
    /\ LET r == IF inp.fn = "submit_jupyter_job"
                THEN submit_jupyter_job(inp.text, inp.err)
                ELSE submit_custom_job(inp.text, inp.err)
       IN  outp' = [NoOutput EXCEPT !.done = TRUE, !.id = r.id, !.error = r.error]
    /\ UNCHANGED <<appVars, exec, inp>>

WrapCancel ==
    /\ ~outp.done
    /\ inp.fn \in {"cancel_job", "cancel_all_jobs"}
    /\ LET error == IF inp.fn = "cancel_job"
                    THEN cancel_job(inp.err, inp.rc)
                    ELSE cancel_all_jobs(inp.err, inp.rc)
       IN  outp' = [NoOutput EXCEPT !.done = TRUE, !.error = error,
                                    !.notice = kill_notice(error)]
    /\ UNCHANGED <<appVars, exec, inp>>

WrapFetchConv ==
    /\ ~outp.done
    /\ inp.fn = "fetch_jobs" /\ variant = "conv"
    /\ outp' = [NoOutput EXCEPT !.done = TRUE, !.jobs = conv_fetch_jobs(inp.rc, inp.lines)]
    /\ UNCHANGED <<appVars, exec, inp>>

WrapFetchHpc ==
    /\ ~outp.done
    /\ inp.fn = "fetch_jobs" /\ variant = "hpc"
    /\ outp' = [NoOutput EXCEPT !.done = TRUE, !.jobs = hpc_fetch_jobs(inp.rc, inp.lines)]
    /\ UNCHANGED <<appVars, exec, inp>>

WrapNext ==
    \/ WrapSubmit
    \/ WrapCancel
    \/ WrapFetchConv
    \/ WrapFetchHpc

WrapSpec == WrapInit /\ [][WrapNext]_vars

----------------------------------------------------------------------------
(* Durations: duration.py and the time properties of an OAR job record.    *)
(* A text is a sequence of characters; an absent value (None) and a value  *)
(* are told apart by the field `some`.                                     *)

MaxDurText == 3
MaxTokens == 3
MaxMinutes == 1500
MaxNegative == 2
MaxWall == 4
MaxStamp == 2

None == [some |-> FALSE, v |-> 0]
Some(n) == [some |-> TRUE, v |-> n]

DigitSeq == <<"0", "1", "2", "3", "4", "5", "6", "7", "8", "9">>
IsDigit(c) == \E i \in 1..Len(DigitSeq) : DigitSeq[i] = c
DigitVal(c) == (CHOOSE i \in 1..Len(DigitSeq) : DigitSeq[i] = c) - 1
IsNumber(t) == t # <<>> /\ \A i \in 1..Len(t) : IsDigit(t[i])
Units == {"d", "h", "m"}

\* The value of a run of decimal digits.
RECURSIVE digits_value(_)
digits_value(t) ==
    IF t = <<>> THEN 0
    ELSE digits_value(SubSeq(t, 1, Len(t) - 1)) * 10 + DigitVal(t[Len(t)])

\* str(n), and format(n, "02d") for n >= 0.
RECURSIVE str_nat(_)
str_nat(n) ==
    IF n < 10 THEN <<DigitSeq[n + 1]>>
    ELSE str_nat(n \div 10) \o <<DigitSeq[(n % 10) + 1]>>

str(n) == IF n < 0 THEN <<"-">> \o str_nat(0 - n) ELSE str_nat(n)

format_02d(n) == IF Len(str(n)) < 2 THEN <<"0">> \o str(n) ELSE str(n)

\* int(text): surrounding whitespace and a sign are accepted; anything
\* else raises ValueError, given here as None.
int(t) ==
    LET s == strip(t)
        signed == s # <<>> /\ s[1] \in {"+", "-"}
        body == IF signed THEN Tail(s) ELSE s
    IN  IF ~IsNumber(body) THEN None
        ELSE IF signed /\ s[1] = "-" THEN Some(0 - digits_value(body))
        ELSE Some(digits_value(body))

\* str.lower()
lower(t) ==
    [i \in 1..Len(t) |->
        IF t[i] = "D" THEN "d" ELSE IF t[i] = "H" THEN "h"
        ELSE IF t[i] = "M" THEN "m" ELSE t[i]]

\* str.split(sep)
RECURSIVE split(_, _)
split(t, sep) ==
    IF \A i \in 1..Len(t) : t[i] # sep THEN <<t>>
    ELSE LET k == CHOOSE i \in 1..Len(t) :
                      t[i] = sep /\ \A j \in 1..(i - 1) : t[j] # sep
         IN  <<SubSeq(t, 1, k - 1)>> \o split(SubSeq(t, k + 1, Len(t)), sep)

\* " ".join(parts)
RECURSIVE join(_)
join(parts) ==
    IF parts = <<>> THEN <<>>
    ELSE IF Len(parts) = 1 THEN parts[1]
    ELSE parts[1] \o <<" ">> \o join(Tail(parts))

\* The last position of the run of digits that starts at position i (\d+),
\* and the first position at or after i that holds no whitespace (\s*).
RunEnd(text, i) ==
    CHOOSE e \in i..Len(text) :
        /\ \A p \in i..e : IsDigit(text[p])
        /\ e = Len(text) \/ ~IsDigit(text[e + 1])

SpaceEnd(text, i) ==
    CHOOSE e \in i..(Len(text) + 1) :
        /\ \A p \in i..(e - 1) : text[p] \in Whitespace
        /\ e = Len(text) + 1 \/ text[e] \notin Whitespace

\* re.findall(r"(\d+)\s*(d|h|m)", text) from position i on: a number is
\* taken wherever it stands in the text, when a unit letter follows it
\* after optional whitespace; everything else is skipped.
RECURSIVE findall(_, _)
findall(text, i) ==
    IF i > Len(text) THEN <<>>
    ELSE IF ~IsDigit(text[i]) THEN findall(text, i + 1)
    ELSE LET j == RunEnd(text, i)
             k == SpaceEnd(text, j + 1)
         IN  IF k <= Len(text) /\ text[k] \in Units
             THEN <<[val |-> SubSeq(text, i, j), unit |-> text[k]]>>
                      \o findall(text, k + 1)
             ELSE findall(text, j + 1)

\* A sum of the numbers that leaves the units out.
RECURSIVE token_total_unweighted(_)
token_total_unweighted(tokens) ==
    IF tokens = <<>> THEN 0
    ELSE digits_value(tokens[1].val) + token_total_unweighted(Tail(tokens))

\* The loop of parse_to_minutes over the (val, unit) pairs.
RECURSIVE token_total(_)
token_total(tokens) ==
    IF tokens = <<>> THEN 0
    ELSE LET v == digits_value(tokens[1].val)
             unit == tokens[1].unit
         IN  (IF unit = "d" THEN v * 1440 ELSE IF unit = "h" THEN v * 60 ELSE v)
                 + token_total(Tail(tokens))

parse_to_minutes(raw) ==
    LET text == lower(strip(raw))
        hms == split(text, ":")
        tokens == findall(text, 1)
    IN  IF text = <<>> THEN None
        ELSE IF Len(hms) = 3 /\ \A i \in 1..3 : IsNumber(hms[i])
        THEN Some(digits_value(hms[1]) * 60 + digits_value(hms[2]))
        ELSE IF tokens # <<>> THEN Some(token_total(tokens))
        ELSE IF IsNumber(text) THEN Some(digits_value(text) * 60)
        ELSE None

minutes_to_hms(total_minutes) ==
    str(total_minutes \div 60) \o <<":">> \o str(total_minutes % 60) \o <<":", "0">>

\* A wire form that never switches to the day form.
minutes_to_slurm_hours(total_minutes) ==
    format_02d(total_minutes \div 60) \o <<":">>
        \o format_02d(total_minutes % 60) \o <<":", "0", "0">>

minutes_to_slurm(total_minutes) ==
    LET total_h == total_minutes \div 60
        m == total_minutes % 60
    IN  IF total_h >= 24
        THEN str(total_h \div 24) \o <<"-">> \o format_02d(total_h % 24) \o <<":">>
                 \o format_02d(m) \o <<":", "0", "0">>
        ELSE format_02d(total_h) \o <<":">> \o format_02d(m) \o <<":", "0", "0">>

\* A rendering that leaves the days out.
minutes_to_human_nodays(total_minutes) ==
    IF total_minutes <= 0 THEN <<"0", "m">>
    ELSE LET h == (total_minutes % 1440) \div 60
             m == total_minutes % 60
             parts == (IF h # 0 THEN <<str(h) \o <<"h">>>> ELSE <<>>)
                          \o (IF m # 0 THEN <<str(m) \o <<"m">>>> ELSE <<>>)
         IN  IF parts = <<>> THEN <<"0", "m">> ELSE join(parts)

minutes_to_human(total_minutes) ==
    IF total_minutes <= 0 THEN <<"0", "m">>
    ELSE LET d == total_minutes \div 1440
             h == (total_minutes % 1440) \div 60
             m == total_minutes % 60
             parts == (IF d # 0 THEN <<str(d) \o <<"d">>>> ELSE <<>>)
                          \o (IF h # 0 THEN <<str(h) \o <<"h">>>> ELSE <<>>)
                          \o (IF m # 0 THEN <<str(m) \o <<"m">>>> ELSE <<>>)
         IN  IF parts = <<>> THEN <<"0", "m">> ELSE join(parts)

\* OARJob.elapsed_minutes, with `now` for int(time.time()).
elapsed_minutes(start_time, now) ==
    LET ts == int(start_time)
        e == (now - ts.v) \div 60
    IN  IF start_time = <<>> THEN None
        ELSE IF ~ts.some THEN None
        ELSE IF ts.v <= 0 THEN None
        ELSE Some(IF e > 0 THEN e ELSE 0)

\* OARJob.wall_minutes
wall_minutes(walltime) ==
    LET parts == split(walltime, ":")
        h == int(parts[1])
        m == int(parts[2])
    IN  IF walltime = <<>> THEN None
        ELSE IF Len(parts) < 2 THEN None
        ELSE IF ~h.some \/ ~m.some THEN None
        ELSE Some(h.v * 60 + m.v)

\* OARJob.remaining_minutes
remaining_minutes(start_time, walltime, now) ==
    LET e == elapsed_minutes(start_time, now)
        w == wall_minutes(walltime)
    IN  IF ~e.some \/ ~w.some THEN None
        ELSE Some(IF w.v - e.v > 0 THEN w.v - e.v ELSE 0)

----------------------------------------------------------------------------
(* The duration functions applied to texts, minute counts and job fields.  *)

DurChars == {"1", "2", "h", "m", "H", " ", "x", ":", "-"}
DurTexts == UNION {[1..n -> DurChars] : n \in 0..MaxDurText}

TokenVals == {<<"0">>, <<"1">>, <<"6">>, <<"3", "0">>}
Gaps == {<<>>, <<" ">>}

\* The tokens written one after the other, `sep` between two tokens.
RECURSIVE render(_, _)
render(tokens, sep) ==
    IF tokens = <<>> THEN <<>>
    ELSE tokens[1][1] \o <<tokens[1][2]>>
             \o (IF Len(tokens) > 1 THEN sep ELSE <<>>)
             \o render(Tail(tokens), sep)

CompositeTexts ==
    {render(ts, sep) :
        ts \in UNION {[1..n -> TokenVals \X Units] : n \in 1..MaxTokens},
        sep \in Gaps}

LegacyTexts ==
    {h \o <<":">> \o m \o <<":">> \o s : h \in TokenVals, m \in TokenVals, s \in TokenVals}

SampleTexts ==
    {<<"9", "0">>, <<"a", "b", "c">>, <<"1", ".", "5", "h">>,
     <<"2", "h", " ", "x">>, <<"1", "h", "3", "0">>, <<" ", "2", "D", " ", "1", "M", "LF">>}

MinuteCounts == 0..MaxMinutes

WallChars == {"1", "-", ":"}
WallTexts == UNION {[1..n -> WallChars] : n \in 0..MaxWall}
StampChars == {"0", "9", "-", "x"}
StampTexts == UNION {[1..n -> StampChars] : n \in 0..MaxStamp}
Clocks == {0, 59, 200}

DurInput(fn, text, n, start_time, walltime, now) ==
    [fn |-> fn, text |-> text, n |-> n,
     start_time |-> start_time, walltime |-> walltime, now |-> now]

ParseInputs ==
    {DurInput("parse_to_minutes", t, 0, <<>>, <<>>, 0) :
        t \in DurTexts \cup CompositeTexts \cup LegacyTexts \cup SampleTexts}

WireInputs ==
    {DurInput(fn, <<>>, n, <<>>, <<>>, 0) :
        fn \in {"minutes_to_hms", "minutes_to_slurm"}, n \in MinuteCounts}

HumanInputs ==
    {DurInput("minutes_to_human", <<>>, n, <<>>, <<>>, 0) :
        n \in (0 - MaxNegative)..MaxMinutes}

JobInputs ==
    {DurInput("OARJob", <<>>, 0, s, w, now) :
        s \in StampTexts, w \in WallTexts, now \in Clocks}

NoDuration ==
    [done |-> FALSE, value |-> None, text |-> <<>>,
     elapsed |-> None, wall |-> None, remaining |-> None]

DurInit ==
    /\ alive = TRUE
    /\ stack = <<>>
    /\ workers = {}
    /\ sched = [j \in Jobs |-> "none"]
    /\ jobs = [j \in Jobs |-> ""]
    /\ launched = FALSE
    /\ display = ""
    /\ polls = 0
    /\ pollProcs = {}
    /\ displaySeq = 0
    /\ pollLog = NoLog
    /\ triggers = 0
    /\ abandoned = FALSE
    /\ res = NoRes
    /\ tunnels = <<>>
    /\ cancelCmds = 0
    /\ note = <<"none", "">>
    /\ exec = NoCall
    /\ \/ variant \in Variants /\ inp \in ParseInputs
       \/ variant = "hpc" /\ inp \in HumanInputs
       \/ /\ inp \in WireInputs
          /\ variant = IF inp.fn = "minutes_to_hms" THEN "hpc" ELSE "conv"
       \/ variant = "hpc" /\ inp \in JobInputs
    /\ outp = NoDuration

DurParse ==
    /\ ~outp.done
    /\ inp.fn = "parse_to_minutes"
    /\ outp' = [NoDuration EXCEPT !.done = TRUE, !.value = parse_to_minutes(inp.text)]
    /\ UNCHANGED <<appVars, exec, inp>>

DurHms ==
    /\ ~outp.done
    /\ inp.fn = "minutes_to_hms"
    /\ outp' = [NoDuration EXCEPT !.done = TRUE, !.text = minutes_to_hms(inp.n)]
    /\ UNCHANGED <<appVars, exec, inp>>

DurSlurm ==
    /\ ~outp.done
    /\ inp.fn = "minutes_to_slurm"
    /\ outp' = [NoDuration EXCEPT !.done = TRUE, !.text = minutes_to_slurm(inp.n)]
    /\ UNCHANGED <<appVars, exec, inp>>

DurHuman ==
    /\ ~outp.done
    /\ inp.fn = "minutes_to_human"
    /\ outp' = [NoDuration EXCEPT !.done = TRUE, !.text = minutes_to_human(inp.n)]
    /\ UNCHANGED <<appVars, exec, inp>>

DurJob ==
    /\ ~outp.done
    /\ inp.fn = "OARJob"
    /\ outp' = [NoDuration EXCEPT
                    !.done = TRUE,
                    !.elapsed = elapsed_minutes(inp.start_time, inp.now),
                    !.wall = wall_minutes(inp.walltime),
                    !.remaining = remaining_minutes(inp.start_time, inp.walltime, inp.now)]
    /\ UNCHANGED <<appVars, exec, inp>>

DurNext ==
    \/ DurParse
    \/ DurHms
    \/ DurSlurm
    \/ DurHuman
    \/ DurJob

DurSpec == DurInit /\ [][DurNext]_vars

----------------------------------------------------------------------------
(* The endpoint of a session: _connect_to with the node name and the URL   *)
(* it was given, up to the tunnel command of the session screen it pushes. *)

MaxUrl == 4
HpcDefaultPort == 8888
ConvDefaultPort == 9888

UrlPrefix == <<"h", "t", "t", "p", ":", "/", "/">>
Localhost == <<"l", "o", "c", "a", "l", "h", "o", "s", "t">>
UrlChars == {"b", "9", ":", "/"}

\* What grep -o 'http://[^ ]*' ... | tail -1 prints: nothing, or "http://"
\* and the characters that follow it in the log.
Urls == {<<>>} \cup {UrlPrefix \o body : body \in UNION {[1..n -> UrlChars] : n \in 0..MaxUrl}}

\* re.search(r":(\d+)(?=/)", url): the first ":" that is followed by digits
\* and then "/".
search_port(url) ==
    LET found == {i \in 1..(Len(url) - 1) :
                      /\ url[i] = ":"
                      /\ IsDigit(url[i + 1])
                      /\ RunEnd(url, i + 1) < Len(url)
                      /\ url[RunEnd(url, i + 1) + 1] = "/"}
        first == CHOOSE i \in found : \A k \in found : i <= k
    IN  IF found = {} THEN None
        ELSE Some(digits_value(SubSeq(url, first + 1, RunEnd(url, first + 1))))

\* re.sub(r"http://[^:]*:", "http://localhost:", url, count=1)
local_url(url) ==
    LET colons == {i \in (Len(UrlPrefix) + 1)..Len(url) : url[i] = ":"}
        first == CHOOSE i \in colons : \A k \in colons : i <= k
    IN  IF colons = {} THEN url
        ELSE UrlPrefix \o Localhost \o SubSeq(url, first, Len(url))

\* SessionScreen._start_tunnel: the ssh command of the tunnel.
tunnel_command(node, port) ==
    IF variant = "hpc"
    THEN [jump |-> "", local_port |-> port, remote_port |-> port,
          node |-> node, domain |-> ""]
    ELSE [jump |-> "conv", local_port |-> port, remote_port |-> port,
          node |-> node, domain |-> ".convergence.lip6.fr"]

NoCommand == [jump |-> "", local_port |-> 0, remote_port |-> 0, node |-> <<>>, domain |-> ""]
NoEndpoint ==
    [done |-> FALSE, job |-> "", node |-> <<>>, url |-> <<>>, local_url |-> <<>>,
     port |-> 0, cmd |-> NoCommand]

\* on_job_running has started _connect_to for the tracked job.
EndpointInit ==
    /\ variant \in Variants
    /\ alive = TRUE
    /\ stack = <<>>
    /\ workers = {Worker("app", "_connect_to", "node", TJ, 0, 0)}
    /\ sched = [j \in Jobs |-> "running"]
    /\ jobs = [j \in Jobs |-> RunningWord(variant)]
    /\ launched = TRUE
    /\ display = ""
    /\ polls = 0
    /\ pollProcs = {}
    /\ displaySeq = 0
    /\ pollLog = NoLog
    /\ triggers = 0
    /\ abandoned = FALSE
    /\ res = [job |-> TJ, nodeCalls |-> 0, out |-> "running", cancels0 |-> 0]
    /\ tunnels = <<>>
    /\ cancelCmds = 0
    /\ note = <<"none", "">>
    /\ exec = NoCall
    /\ inp = NoInput
    /\ outp = NoEndpoint

\* _connect_to after get_job_node returned `node`.
EndpointNode ==
    /\ alive
    /\ \E w \in workers :
          /\ w.fn = "_connect_to" /\ w.pc = "node"
          /\ \E node \in NodeOutputs :
                IF ~is_name(node)
                THEN /\ note' = <<"no_node", w.job>>
                     /\ workers' = workers \ {w}
                     /\ res' = [res EXCEPT !.nodeCalls = @ + 1, !.out = "no_node"]
                     /\ outp' = outp
                ELSE /\ note' = <<"waiting_jupyter", w.job>>
                     /\ workers' = (workers \ {w}) \cup {[w EXCEPT !.pc = "url"]}
                     /\ res' = [res EXCEPT !.nodeCalls = @ + 1]
                     /\ outp' = [outp EXCEPT !.node = node]
    /\ UNCHANGED <<exec, inp, variant, alive, stack, sched, jobs, launched, display, polls,
                   pollProcs, displaySeq, pollLog, triggers, abandoned, tunnels, cancelCmds>>

\* One get_jupyter_url attempt that returned `url`; with a URL the port is
\* read from it, the session screen is pushed and its on_mount starts the
\* tunnel.
EndpointUrl ==
    /\ alive
    /\ \E w \in workers :
          /\ w.fn = "_connect_to" /\ w.pc = "url"
          /\ \E url \in Urls, ok \in BOOLEAN :
                IF url = <<>>
                THEN /\ ok
                     /\ workers' = (workers \ {w}) \cup {[w EXCEPT !.pc = "sleep"]}
                     /\ UNCHANGED <<stack, tunnels, res, outp>>
                ELSE LET port_match == search_port(url)
                         port == IF port_match.some THEN port_match.v
                                 ELSE IF variant = "hpc" THEN HpcDefaultPort
                                 ELSE ConvDefaultPort
                     IN  /\ workers' = workers \ {w}
                         /\ res' = [res EXCEPT !.out = "session"]
                         /\ tunnels' = start_tunnel(tunnels, ok)
                         /\ stack' = push_screen(stack, SessionScreen(w.job, Len(tunnels')))
                         /\ outp' = [outp EXCEPT
                                        !.done = TRUE, !.job = w.job, !.url = url,
                                        !.local_url = local_url(url), !.port = port,
                                        !.cmd = tunnel_command(outp.node, port)]
    /\ UNCHANGED <<exec, inp, variant, alive, sched, jobs, launched, display, polls, pollProcs,
                   displaySeq, pollLog, triggers, abandoned, cancelCmds, note>>

EndpointNext ==
    \/ EndpointNode
    \/ EndpointUrl
    \/ ConnectSleep

EndpointSpec == EndpointInit /\ [][EndpointNext]_vars

----------------------------------------------------------------------------
(* Dashboard tables: refresh_jobs with _update_tables, and action_connect, *)
(* on listings of several jobs.  The dashboard is kept in outp: the        *)
(* listing self._jobs, the rows of the running and the pending table, and  *)
(* what the last connect action offered.                                   *)

MaxListing == 3

\* State words a listing row can carry in each variant.
ListingWords(v) ==
    IF v = "hpc" THEN {"Running", "Waiting", "Launching"}
    ELSE {"RUNNING", "PENDING", "COMPLETING"}

\* fetch_jobs: one record per listed job, in the order of the listing; the
\* scheduler numbers the jobs.
Listings(v) ==
    UNION {{[i \in 1..n |-> [job_id |-> i, state |-> f[i]]] :
              f \in [1..n -> ListingWords(v)]} : n \in 0..MaxListing}

\* [j for j in self._jobs if j.state == "Running"] and its complement.
running_jobs(js) == SelectSeq(js, LAMBDA j : j.state = RunningWord(variant))
pending_jobs(js) == SelectSeq(js, LAMBDA j : j.state # RunningWord(variant))

\* The job ids of the rows added for the jobs in js.
add_rows(js) == [i \in 1..Len(js) |-> js[i].job_id]

\* Tables in which every listed job is also given a pending row.
_update_tables_all_pending(js) ==
    [rt |-> add_rows(running_jobs(js)), pt |-> add_rows(js)]

\* _update_tables: both tables are cleared and filled from self._jobs.
_update_tables(js) ==
    [rt |-> add_rows(running_jobs(js)), pt |-> add_rows(pending_jobs(js))]

NoDashboard ==
    [jobs |-> <<>>, rt |-> <<>>, pt |-> <<>>, offered |-> <<>>, how |-> "none",
     refreshes |-> 0, connects |-> 0]

DashInit ==
    /\ variant \in Variants
    /\ alive = TRUE
    /\ stack = <<>>
    /\ workers = {}
    /\ sched = [j \in Jobs |-> "none"]
    /\ jobs = [j \in Jobs |-> ""]
    /\ launched = FALSE
    /\ display = ""
    /\ polls = 0
    /\ pollProcs = {}
    /\ displaySeq = 0
    /\ pollLog = NoLog
    /\ triggers = 0
    /\ abandoned = FALSE
    /\ res = NoRes
    /\ tunnels = <<>>
    /\ cancelCmds = 0
    /\ note = <<"none", "">>
    /\ exec = NoCall
    /\ inp = NoInput
    /\ outp = NoDashboard

\* refresh_jobs after its await: fetch_jobs returned a listing (none when
\* the call failed), which replaces self._jobs, and _update_tables() runs.
DashRefresh ==
    /\ \E l \in Listings(variant) :
          LET t == _update_tables(l)
          IN  outp' = [outp EXCEPT !.jobs = l, !.rt = t.rt, !.pt = t.pt,
                                   !.refreshes = 1]
    /\ UNCHANGED appVars
    /\ UNCHANGED <<exec, inp>>

\* action_connect: nothing to connect to, the one running job directly, or
\* the picker over the running jobs.
DashConnect ==
    /\ LET running == running_jobs(outp.jobs)
       IN  outp' = [outp EXCEPT
                       !.offered = add_rows(running),
                       !.how = IF Len(running) = 0 THEN "no_running"
                               ELSE IF Len(running) = 1 THEN "direct"
                               ELSE "picker",
                       !.connects = 1 - @]
    /\ UNCHANGED appVars
    /\ UNCHANGED <<exec, inp>>

DashNext ==
    \/ DashRefresh
    \/ DashConnect

DashSpec == DashInit /\ [][DashNext]_vars

----------------------------------------------------------------------------
(* conv get_job_state, call by call: squeue, then sacct when squeue's       *)
(* output strips to nothing.  The query is kept in outp: where it stands,   *)
(* the remote calls made, what each call printed, and the state returned.  *)
(* A call that fails or times out prints nothing (ssh.run gives "").       *)

MaxReply == 2

ReplyChars == {"R", "P", " ", "LF"}
Replies == UNION {[1..n -> ReplyChars] : n \in 0..MaxReply}

NoQuery == [pc |-> "idle", calls |-> 0, squeue |-> <<>>, sacct |-> <<>>, state |-> <<>>]

\* A query that asks the accounting whatever the live queue printed.
always_sacct(state) == TRUE

\* `if not state:` after the squeue call.
needs_sacct(state) == state = <<>>

QueryInit ==
    /\ variant = "conv"
    /\ alive = TRUE
    /\ stack = <<>>
    /\ workers = {}
    /\ sched = [j \in Jobs |-> "none"]
    /\ jobs = [j \in Jobs |-> ""]
    /\ launched = FALSE
    /\ display = ""
    /\ polls = 0
    /\ pollProcs = {}
    /\ displaySeq = 0
    /\ pollLog = NoLog
    /\ triggers = 0
    /\ abandoned = FALSE
    /\ res = NoRes
    /\ tunnels = <<>>
    /\ cancelCmds = 0
    /\ note = <<"none", "">>
    /\ exec = NoCall
    /\ inp = NoInput
    /\ outp = NoQuery

\* get_job_state(ssh, job_id) is called.
QueryCall ==
    /\ outp.pc \in {"idle", "done"}
    /\ outp' = [NoQuery EXCEPT !.pc = "squeue"]
    /\ UNCHANGED appVars
    /\ UNCHANGED <<exec, inp>>

\* await ssh.run("squeue -j ... -o '%T'") returned; state = stdout.strip().
QuerySqueue ==
    /\ outp.pc = "squeue"
    /\ \E stdout \in Replies :
          outp' = [outp EXCEPT !.calls = @ + 1,
                               !.squeue = stdout,
                               !.state = strip(stdout),
                               !.pc = IF needs_sacct(strip(stdout)) THEN "sacct" ELSE "done"]
    /\ UNCHANGED appVars
    /\ UNCHANGED <<exec, inp>>

\* await ssh.run("sacct -j ... --format=State ...") returned;
\* state = stdout2.strip(), which is returned.
QuerySacct ==
    /\ outp.pc = "sacct"
    /\ \E stdout2 \in Replies :
          outp' = [outp EXCEPT !.calls = @ + 1,
                               !.sacct = stdout2,
                               !.state = strip(stdout2),
                               !.pc = "done"]
    /\ UNCHANGED appVars
    /\ UNCHANGED <<exec, inp>>

QueryNext ==
    \/ QueryCall
    \/ QuerySqueue
    \/ QuerySacct

QuerySpec == QueryInit /\ [][QueryNext]_vars

----------------------------------------------------------------------------
(* Properties.                                                             *)

\* C1: for a tracked job, whatever the poll results and their order, the
\* tracker enters Running once and starts endpoint resolution exactly once.
C1_ResolutionOnce == triggers <= 1

\* C2: the displayed state is the result of the most recently completed
\* poll: a poll issued earlier never overwrites what a later poll wrote.
C2_NewestPollWins == [][displaySeq' >= displaySeq]_vars

\* C2 witness: the second poll wrote the display while the ssh process of
\* the first, superseded, poll was still running.
C2_Witness == displaySeq = 2 /\ 1 \in pollProcs

\* C3: at most one poll of the tracked job is in flight; a poll that the
\* timer superseded never updates the tracker (only the newest poll writes).
C3_OnePollInFlight ==
    [][/\ Cardinality({w \in workers' : w.fn = "_poll"}) <= 1
       /\ displaySeq' # displaySeq => displaySeq' = polls]_vars

\* C3 witness: the timer fired while the previous poll had not completed;
\* the newer poll is the only worker, the older process is orphaned.
C3_Witness ==
    /\ Cardinality(PollWorkers) = 1
    /\ \E w \in PollWorkers : w.seq = polls /\ \E k \in pollProcs : k < w.seq

\* C4: in both variants, a poll that returns any terminal scheduler state
\* dismisses the waiting screen at that poll, starts no endpoint resolution
\* and notifies with the state string exactly as returned.
C4_TerminalEndsTracking ==
    pollLog.state \in TerminalWords(variant) =>
        /\ pollLog.popped = "waiting"
        /\ ~pollLog.trig
        /\ pollLog.note = <<"failed", pollLog.state>>

\* C5: abandoning a waiting tracker sends no cancel command and leaves the
\* job and the in-flight remote query alone; after abandonment no poll
\* result changes the display, dismisses a screen or starts a resolution.
C5_AbandonDiscards ==
    [][/\ (~abandoned /\ abandoned') =>
              /\ cancelCmds' = cancelCmds
              /\ sched' = sched
              /\ pollProcs' = pollProcs
       /\ abandoned =>
              /\ display' = display
              /\ displaySeq' = displaySeq
              /\ triggers' = triggers
              /\ pollLog' = pollLog]_vars

\* C5 witness: the tracker was abandoned while a remote query was running.
C5_Witness == abandoned /\ pollProcs # {} /\ cancelCmds = 0

\* C6: one endpoint resolution calls query_node once, then query_service_url
\* at most 30 times with a sleep between attempts, and makes no further
\* attempt once a session was opened from a non-empty URL.
C6_BoundedAttempts ==
    /\ res.nodeCalls <= 1
    /\ \A w \in ConnectWorkers(workers) :
          /\ w.n < UrlAttempts
          /\ w.pc = "node" => (w.n = 0 /\ res.nodeCalls = 0)
          /\ w.pc \in {"url", "sleep"} => res.nodeCalls = 1
    /\ res.out = "session" => ConnectWorkers(workers) = {}

\* C6 witness: the 30th attempt has returned no URL.
C6_Witness ==
    \E w \in ConnectWorkers(workers) : w.pc = "sleep" /\ w.n = UrlAttempts - 1

\* C7: when every URL attempt returned nothing, the resolution ends with
\* the "service did not start" error, opens no session and no tunnel and
\* sends no cancel command; the job's remote state is untouched.
C7_NoUrlKeepsJob ==
    [][(res.out = "running" /\ res'.out = "no_url") =>
          /\ note' = <<"no_jupyter", "">>
          /\ stack' = stack
          /\ tunnels' = tunnels
          /\ cancelCmds' = cancelCmds
          /\ cancelCmds = res.cancels0
          /\ sched' = sched]_vars

\* C7 witness: a resolution ended for lack of a URL, the job still running.
C7_Witness == res.out = "no_url" /\ sched[res.job] = "running"

\* C8: every started endpoint resolution finishes with a session or a
\* reported error, under every interleaving with the periodic refresh and
\* the other operations of the application (here: while the app runs, no
\* resolution ends without an outcome).
C8_AlwaysOutcome == alive => res.out # "cancelled"

\* C9: over any sequence of close operations on one tunnel handle the
\* underlying process is signalled at most once.
C9_SignalledOnce == \A i \in 1..Len(tunnels) : tunnels[i].sig <= 1

\* C10: a tunnel process whose session screen is gone (disconnect, any
\* other dismissal, application quit) is not left alive and unsignalled.
C10_NoLeakedTunnel ==
    \A i \in 1..Len(tunnels) :
        (~\E k \in 1..Len(stack) : stack[k].kind = "session" /\ stack[k].tun = i)
            => ~(tunnels[i].st = "alive" /\ tunnels[i].sig = 0)

\* The tunnel processes that run and were never signalled.
LiveHandles == {i \in 1..Len(tunnels) : tunnels[i].st = "alive" /\ tunnels[i].sig = 0}

\* C11: in every reachable state there is at most one live tunnel handle
\* per local port (all sessions here forward the one port of the job's
\* URL), also when a connect is triggered while a session is open.
C11_OneTunnelPerPort == Cardinality(LiveHandles) <= 1

\* C12: a call whose process has not exited when the timeout elapses kills
\* that process and returns ("", "SSH command timed out", 1), in the step
\* in which the timeout elapses (it does not wait for the process to exit).
C12_TimeoutKills ==
    [][exec'.how = "timeout" =>
          /\ exec.pc = "wait" /\ exec.proc = "running"
          /\ exec'.pc = "done"
          /\ exec'.proc \in {"killed", "reaped"}
          /\ exec'.result = Value(<<>>, TimedOutText, 1)]_vars

\* C12 witness: an awaited call ended by timeout with its process killed.
C12_Witness == exec.how = "timeout" /\ exec.form = "run" /\ exec.proc = "killed"

\* C13: run_sync and run return the same (stdout, stderr, exit status) for
\* every process outcome: any status, any bytes, timeout, failure to start.
C13_SameSemantics ==
    exec.pc = "done" =>
        run(exec.outcome, exec.how = "timeout") = run_sync(exec.outcome, exec.how = "timeout")

\* C14: a transport error is never raised to the caller: a failed start
\* returns ("", exception text, 1), and every call that is not superseded
\* ends with a (stdout, stderr, exit status) result.
C14_NeverRaises ==
    /\ exec.result.kind # "raised"
    /\ exec.pc = "done" => exec.result.kind = "value"
    /\ exec.how = "nostart" => exec.result = Value(<<>>, ExcText, 1)
    /\ exec.how = "cancelled" <=> exec.pc = "cancelled"

\* C14 witness: a call whose process could not be started has returned.
C14_Witness == exec.pc = "done" /\ exec.how = "nostart" /\ exec.spawned = 0

SubmitDone == outp.done /\ inp.fn \in {"submit_jupyter_job", "submit_custom_job"}

\* C15: a submission returns exactly one of a job id or an error; the id
\* is returned only when the trimmed stdout is a non-empty string of
\* digits, and is that string; otherwise the error is the (trimmed)
\* captured stderr, or the default message when that is empty.
C15_IdOrError ==
    SubmitDone =>
        LET t == strip(inp.text)
            e == strip(inp.err)
        IN  /\ (outp.id # <<>>) # (outp.error # <<>>)
            /\ outp.id # <<>> <=> AllDigits(t)
            /\ outp.id # <<>> => outp.id = t
            /\ outp.id = <<>> => outp.error = (IF e # <<>> THEN e ELSE DefaultSubmitError)

\* C15 witness: a job id was taken from output that had to be trimmed.
C15_Witness == SubmitDone /\ outp.id # <<>> /\ Len(outp.id) < Len(inp.text)

CancelDone == outp.done /\ inp.fn \in {"cancel_job", "cancel_all_jobs"}

\* C16: a cancel is reported as failed whenever the remote command exits
\* non-zero and whenever it leaves text in stderr, and as successful only
\* when neither holds.
C16_RejectionSurfaced ==
    CancelDone =>
        ((inp.rc # 0 \/ strip(inp.err) # <<>>) <=> outp.notice = "Cancel failed")

WellFormed(parts) == Len(parts) >= ListingFields

\* C17: a delimited listing yields one record per well-formed line, in
\* order; every line with fewer fields than the format has is dropped.
C17_TruncatedDropped ==
    (outp.done /\ inp.fn = "fetch_jobs" /\ variant = "conv" /\ inp.rc = 0) =>
        LET kept == SelectSeq(inp.lines, WellFormed)
        IN  outp.jobs = [i \in 1..Len(kept) |-> FullJob(kept[i])]

\* The header lines of a dump, the k-th of them, and the end of its block.
HeaderLines(lines) == {i \in 1..Len(lines) : IsHeader(lines[i])}

KthHeader(lines, k) ==
    CHOOSE i \in HeaderLines(lines) : Cardinality({j \in HeaderLines(lines) : j <= i}) = k

BlockEnd(lines, i) ==
    LET later == {j \in HeaderLines(lines) : j > i}
    IN  IF later = {} THEN Len(lines) + 1 ELSE CHOOSE j \in later : \A m \in later : j <= m

\* The value of the last line of the block of header i that sets field f.
LastValue(lines, i, f) ==
    LET set == {j \in (i + 1)..(BlockEnd(lines, i) - 1) : FieldOf(lines[j]) = f}
    IN  IF set = {} THEN "" ELSE lines[CHOOSE j \in set : \A m \in set : m <= j].val

BlockRecord(lines, k) ==
    LET i == KthHeader(lines, k)
    IN  [job_id |-> lines[i].val,
         name |-> LastValue(lines, i, "name"),
         state |-> LastValue(lines, i, "state")]

\* C18: parsing a block-structured dump returns one record per header
\* line, in input order, each with the id of its header and the field
\* values of the lines up to the next header or the end of the input;
\* lines before the first header contribute to no record.
C18_OneRecordPerHeader ==
    (outp.done /\ inp.fn = "fetch_jobs" /\ variant = "hpc" /\ inp.rc = 0) =>
        outp.jobs = [k \in 1..Cardinality(HeaderLines(inp.lines)) |->
                        BlockRecord(inp.lines, k)]

\* C18 witness: two records, the first with a field taken from its block.
C18_Witness ==
    /\ outp.done /\ inp.fn = "fetch_jobs" /\ variant = "hpc" /\ inp.rc = 0
    /\ Len(outp.jobs) = 2
    /\ outp.jobs[1].name # ""

Unparsable(lines) ==
    IF variant = "conv" THEN \A i \in 1..Len(lines) : Len(lines[i]) < MinFields
    ELSE HeaderLines(lines) = {}

NormalStates == {"Pending", "Running", "Failed", "Cancelled", "TimedOut", "Unknown"}

\* C20: every job state the adapters produce, in the listing's records
\* and from query_state, is a member of the closed set of normal states.
C20_ClosedStateSet ==
    /\ \A j \in Jobs : jobs[j] # "" => jobs[j] \in NormalStates
    /\ pollLog.state \notin {"-", ""} => pollLog.state \in NormalStates

\* The three accepted forms of a duration, on the trimmed text in lower
\* case: a bare integer, H:M:S, and a text made of tokens <int>d, <int>h,
\* <int>m only, whose value is CompositeValue (None for any other text).
BareForm(t) == IsNumber(t)

LegacyForm(t) == Len(split(t, ":")) = 3 /\ \A i \in 1..3 : IsNumber(split(t, ":")[i])

RECURSIVE CompositeValue(_)
CompositeValue(t) ==
    IF t = <<>> \/ ~IsDigit(t[1]) THEN None
    ELSE LET j == RunEnd(t, 1)
             k == SpaceEnd(t, j + 1)
             v == digits_value(SubSeq(t, 1, j))
             rest == lstrip(SubSeq(t, k + 1, Len(t)))
             more == CompositeValue(rest)
         IN  IF k > Len(t) \/ t[k] \notin Units THEN None
             ELSE LET w == IF t[k] = "d" THEN v * 1440
                           ELSE IF t[k] = "h" THEN v * 60 ELSE v
                  IN  IF rest = <<>> THEN Some(w)
                      ELSE IF more.some THEN Some(w + more.v)
                      ELSE None

Trimmed == lower(strip(inp.text))
Parsed == outp.done /\ inp.fn = "parse_to_minutes"

\* C21: for every valid composite duration string s, parsing s, rendering
\* the minutes with minutes_to_human and parsing the rendering again gives
\* the minute count of s.
C21_HumanRoundTrip ==
    (Parsed /\ CompositeValue(Trimmed).some)
        => /\ outp.value.some
           /\ parse_to_minutes(minutes_to_human(outp.value.v)) = outp.value

\* C21 witness: "30m 1d 6h" was parsed to 1830 minutes, which render as
\* "1d 6h 30m".
C21_Witness ==
    /\ Parsed
    /\ inp.text = <<"3", "0", "m", " ", "1", "d", " ", "6", "h">>
    /\ outp.value = Some(1830)
    /\ minutes_to_human(outp.value.v) = <<"1", "d", " ", "6", "h", " ", "3", "0", "m">>

\* C22: every encoding of a non-negative minute count n is parsed back to
\* n by parse_to_minutes: the minutes_to_slurm form (with its D-HH:MM:00
\* form from 24 hours on), the minutes_to_hms form and the
\* minutes_to_human form.
C22_EncodingsRoundTrip ==
    (/\ outp.done
     /\ inp.fn \in {"minutes_to_slurm", "minutes_to_hms", "minutes_to_human"}
     /\ inp.n >= 0)
        => parse_to_minutes(outp.text) = Some(inp.n)

\* The values of the three forms: 60*k for a bare integer k, the weighted
\* sum for a text of composite tokens, 60*H+M for H:M:S.
FormValues ==
    /\ BareForm(Trimmed) => outp.value = Some(60 * digits_value(Trimmed))
    /\ CompositeValue(Trimmed).some => outp.value = CompositeValue(Trimmed)
    /\ LegacyForm(Trimmed)
           => outp.value = Some(60 * digits_value(split(Trimmed, ":")[1])
                                    + digits_value(split(Trimmed, ":")[2]))

OneDaySixHoursThirty == <<"1", "d", " ", "6", "h", " ", "3", "0", "m">>

HasToken(t) ==
    \E i \in 1..Len(t) : \E k \in (i + 1)..Len(t) :
        /\ IsDigit(t[i])
        /\ t[k] \in Units
        /\ \A p \in (i + 1)..(k - 1) : t[p] \in Whitespace

TwoDigits(f) == Len(f) = 2 /\ IsNumber(f)

ClockShape(t, minutes) ==
    LET p == split(t, ":")
    IN  /\ Len(p) = 3
        /\ TwoDigits(p[1]) /\ TwoDigits(p[2]) /\ p[3] = <<"0", "0">>
        /\ digits_value(p[1]) < 24
        /\ digits_value(p[2]) < 60
        /\ digits_value(p[1]) * 60 + digits_value(p[2]) = minutes

\* A text D-HH:MM:00 that stands for n minutes.
DayClockShape(t, n) ==
    LET q == split(t, "-")
    IN  /\ Len(q) = 2
        /\ IsNumber(q[1])
        /\ ClockShape(q[2], n - digits_value(q[1]) * 1440)

\* A text H:M:0, the fields without padding, that stands for n minutes.
HmsShape(t, n) ==
    LET p == split(t, ":")
    IN  /\ Len(p) = 3
        /\ IsNumber(p[1]) /\ IsNumber(p[2]) /\ p[3] = <<"0">>
        /\ p[1] = str(digits_value(p[1])) /\ p[2] = str(digits_value(p[2]))
        /\ digits_value(p[2]) < 60
        /\ digits_value(p[1]) * 60 + digits_value(p[2]) = n

\* C24: for a non-negative minute count n, minutes_to_slurm(n) is HH:MM:00
\* below 24 hours and D-HH:MM:00 from 24 hours on, with HH below 24, MM
\* below 60 and D*1440 + HH*60 + MM = n; minutes_to_hms(n) is H:M:0 with M
\* below 60 and H*60 + M = n.
C24_WireFormats ==
    outp.done =>
        /\ inp.fn = "minutes_to_slurm"
               => IF inp.n < 1440 THEN ClockShape(outp.text, inp.n)
                  ELSE DayClockShape(outp.text, inp.n)
        /\ inp.fn = "minutes_to_hms" => HmsShape(outp.text, inp.n)

\* C24 witness: 1500 minutes were written as "1-01:00:00".
C24_Witness ==
    /\ outp.done /\ inp.fn = "minutes_to_slurm" /\ inp.n = 1500
    /\ outp.text = <<"1", "-", "0", "1", ":", "0", "0", ":", "0", "0">>

\* A part <int><unit> of a rendering: its unit, its number, and the rank of
\* its unit (days before hours before minutes).
PartUnit(p) == p[Len(p)]
PartVal(p) == digits_value(SubSeq(p, 1, Len(p) - 1))
Rank(u) == IF u = "d" THEN 1 ELSE IF u = "h" THEN 2 ELSE 3

HumanShape(t, n) ==
    LET parts == split(t, " ")
    IN  /\ \A i \in 1..Len(parts) :
               /\ Len(parts[i]) >= 2
               /\ PartUnit(parts[i]) \in Units
               /\ IsNumber(SubSeq(parts[i], 1, Len(parts[i]) - 1))
               /\ SubSeq(parts[i], 1, Len(parts[i]) - 1) = str(PartVal(parts[i]))
               /\ PartVal(parts[i]) # 0
               /\ PartUnit(parts[i]) = "h" => PartVal(parts[i]) < 24
               /\ PartUnit(parts[i]) = "m" => PartVal(parts[i]) < 60
        /\ \A i \in 1..(Len(parts) - 1) :
               Rank(PartUnit(parts[i])) < Rank(PartUnit(parts[i + 1]))
        /\ CompositeValue(t) = Some(n)

\* C27: minutes_to_human(n) lists the non-zero components among days,
\* hours (below 24) and minutes (below 60), in that order, joined by single
\* spaces, with d*1440 + h*60 + m = n; it is "0m" when n is 0 or negative.
C27_HumanFormat ==
    (outp.done /\ inp.fn = "minutes_to_human")
        => IF inp.n <= 0 THEN outp.text = <<"0", "m">>
           ELSE HumanShape(outp.text, inp.n)

\* C27 witness: 1500 minutes were rendered as "1d 1h", and a negative
\* count is among the inputs.
C27_Witness ==
    /\ outp.done /\ inp.fn = "minutes_to_human" /\ inp.n = 1500
    /\ outp.text = <<"1", "d", " ", "1", "h">>
    /\ \E x \in HumanInputs : x.n < 0

NonNegative(d) == d.some => d.v >= 0

\* C28: every duration the code produces is a non-negative number of
\* minutes or absent: the result of parse_to_minutes on any text, and the
\* elapsed, wall-clock and remaining minutes of a job record on any field
\* text and any clock value; the remaining minutes are max(0, wall -
\* elapsed), and absent when either is absent.
C28_NonNegativeDurations ==
    outp.done =>
        /\ NonNegative(outp.value)
        /\ NonNegative(outp.elapsed)
        /\ NonNegative(outp.wall)
        /\ NonNegative(outp.remaining)
        /\ outp.remaining =
               IF outp.elapsed.some /\ outp.wall.some
               THEN Some(IF outp.wall.v > outp.elapsed.v
                         THEN outp.wall.v - outp.elapsed.v ELSE 0)
               ELSE None

\* The port a URL names: the digits after the last ":" of its authority,
\* that is of the text between "http://" and the first "/" (None when the
\* authority ends otherwise).
UrlPort(url) ==
    LET authority == split(SubSeq(url, Len(UrlPrefix) + 1, Len(url)), "/")[1]
        p == split(authority, ":")
    IN  IF Len(p) >= 2 /\ IsNumber(p[Len(p)]) THEN Some(digits_value(p[Len(p)]))
        ELSE None

\* C25: a tunnel is started only after query_node returned a valid node
\* name and a query_service_url attempt returned a non-empty URL; it
\* forwards the port found in that URL, or the variant's default port when
\* the URL names none, to that node.
C25_TunnelFromResolvedEndpoint ==
    tunnels # <<>> =>
        /\ outp.done
        /\ res.nodeCalls = 1 /\ is_name(outp.node)
        /\ outp.url # <<>>
        /\ outp.cmd.node = outp.node
        /\ outp.cmd.remote_port =
               IF UrlPort(outp.url).some THEN UrlPort(outp.url).v
               ELSE IF variant = "hpc" THEN HpcDefaultPort ELSE ConvDefaultPort

\* C26: a Remote Executor call starts one process and never a second one,
\* whether the process exits, fails or is timed out; once the call has
\* returned, the client holds nothing of it.
C26_OneProcessNoRetry ==
    /\ exec.spawned <= 1
    /\ exec.how \in {"exit", "timeout", "cancelled"} => exec.spawned = 1
    /\ exec.pc = "idle" => exec = NoCall

\* C26 witness: a call returned after its process had failed (ssh exit
\* status 255), with one process started.
C26_Witness ==
    /\ exec.pc = "done" /\ exec.how = "exit"
    /\ exec.outcome.rc = 255
    /\ exec.spawned = 1

\* C29: the polls, the node query, the URL attempts and the session of the
\* tracked job all carry the id its submission returned; no step of the
\* tracker changes it.
C29_StableJobId ==
    /\ \A w \in workers :
           (w.fn \in {"_poll", "on_job_running", "_connect_to"} \/ w.pc = "got_id")
               => w.job = TJ
    /\ \A i \in 1..Len(stack) :
           stack[i].kind \in {"waiting", "session"} => stack[i].job = TJ
    /\ res.job \in {"", TJ}
    /\ res.out # "none" => res.job = TJ

\* C29 witness: the session of the tracked job is open after two polls,
\* under the id the submission returned.
C29_Witness ==
    /\ TopIs("session") /\ Top.job = TJ
    /\ polls >= 2
    /\ res.out = "session" /\ res.job = TJ
    /\ note = <<"waiting_jupyter", TJ>>

\* C30: when the scheduler reports the tracked job as running and the
\* operator does not abandon the tracker, the tracker eventually starts
\* endpoint resolution, also when every remote call takes longer than the
\* 5-second poll interval.
C30_TrackerProgress == <>(triggers > 0)

\* C36: parse_to_minutes gives a value only when the whole trimmed input
\* is made of composite tokens, or is H:M:S, or is a bare integer; an input
\* with other text around or between the tokens gives no value.
C36_WholeInputOnly ==
    (Parsed /\ outp.value.some)
        => \/ BareForm(Trimmed)
           \/ LegacyForm(Trimmed)
           \/ CompositeValue(Trimmed).some

\* C31: a submission is never lost locally.  A launch_job whose remote
\* command produced a job id does not leave the application's workers,
\* while the application runs, without having pushed the waiting screen of
\* that id and announced the submission, whatever the periodic refresh and
\* the other exclusive workers of the application do meanwhile.
C31_SubmissionNotLost ==
    [][\A w \in workers :
          (w.fn = "launch_job" /\ w.pc = "got_id" /\ w \notin workers' /\ alive')
              => /\ Mounted("waiting")'
                 /\ WaitingJob' = w.job
                 /\ note' = <<"submitted", w.job>>]_vars

\* C32: once the tracker has ended (a poll observed Running or a terminal
\* state and dismissed a screen, or the operator abandoned it), no further
\* poll is issued for its job, and the screen a poll dismisses is the
\* tracker's own waiting screen, also when the launch form was opened on
\* top of the waiting screen.
C32_EndedTrackerStops ==
    [][/\ pollLog'.popped \in {"-", "waiting"}
       /\ (pollLog.popped # "-" \/ abandoned) => polls' = polls]_vars

\* C33: a poll whose remote call failed or timed out (get_job_state gave the
\* empty string) leaves the tracker waiting: the display shows PENDING, no
\* screen is dismissed, endpoint resolution is not started, nothing is
\* notified, and the waiting screen with its poll timer stays mounted.
C33_FailedPollKeepsWaiting ==
    [][(displaySeq' # displaySeq /\ pollLog'.state = "")
          => /\ display' = "PENDING"
             /\ stack' = stack
             /\ Mounted("waiting")'
             /\ triggers' = triggers
             /\ note' = note
             /\ ~abandoned']_vars

\* C33 witness: the first poll came back empty, the tracker shows PENDING
\* with nothing new notified, and the timer has issued the second poll.
C33_Witness ==
    /\ displaySeq = 1 /\ pollLog.state = "" /\ pollLog.popped = "-"
    /\ display = "PENDING"
    /\ note = <<"submitted", TJ>>
    /\ triggers = 0
    /\ polls = 2
    /\ \E w \in workers : w.fn = "_poll" /\ w.seq = 2 /\ w.job = TJ

\* C34: a mounted session shows its tunnel as ACTIVE only while the
\* forwarding process it started is alive: the label is never ACTIVE when
\* the process has exited.
C34_ActiveOnlyWhileAlive ==
    \A i \in 1..Len(stack) :
        (stack[i].kind = "session" /\ tunnels[stack[i].tun].label = "ACTIVE")
            => tunnels[stack[i].tun].st = "alive"

\* The ids in the rows of a table, and how often an id has a row.
Rows(t, id) == Cardinality({i \in 1..Len(t) : t[i] = id})

TablesPartition(d) ==
    \A i \in 1..Len(d.jobs) :
        LET j == d.jobs[i]
        IN  /\ Rows(d.rt, j.job_id) + Rows(d.pt, j.job_id) = 1
            /\ Rows(d.rt, j.job_id) = 1 <=> j.state = RunningWord(variant)

\* C35: after every completed refresh each job of the latest listing has a
\* row in exactly one of the two tables, in the running table exactly when
\* its state is the scheduler's Running word; and the connect action, when
\* it is taken, offers only jobs that are Running in the latest listing.
C35_TablesFollowListing ==
    [][/\ TablesPartition(outp')
       /\ outp'.connects # outp.connects
            => \A k \in 1..Len(outp'.offered) :
                  \E i \in 1..Len(outp.jobs) :
                      /\ outp.jobs[i].job_id = outp'.offered[k]
                      /\ outp.jobs[i].state = RunningWord(variant)]_vars

\* C35 witness: a listing of three jobs, the first and the third running,
\* is shown in the two tables, and connect offered the two running jobs in
\* the picker.
C35_Witness ==
    /\ outp.refreshes = 1
    /\ Len(outp.jobs) = 3
    /\ outp.jobs[1].state = RunningWord(variant)
    /\ outp.jobs[2].state # RunningWord(variant)
    /\ outp.jobs[3].state = RunningWord(variant)
    /\ outp.rt = <<1, 3>> /\ outp.pt = <<2>>
    /\ outp.how = "picker" /\ outp.offered = <<1, 3>>

\* C37: the SLURM get_job_state makes at most two remote calls per query;
\* it returns the live-queue state whenever that is not empty, asks the
\* accounting only when the live queue gave nothing, and returns the empty
\* string only when both gave nothing.
C37_TwoCallFallback ==
    /\ outp.calls <= 2
    /\ outp.pc = "done"
         => /\ outp.calls >= 1
            /\ strip(outp.squeue) # <<>>
                 => outp.state = strip(outp.squeue) /\ outp.calls = 1
            /\ outp.calls = 2 <=> strip(outp.squeue) = <<>>
            /\ outp.calls = 2 => outp.state = strip(outp.sacct)
            /\ outp.state = <<>>
                 <=> strip(outp.squeue) = <<>> /\ strip(outp.sacct) = <<>>

\* C37 witness: squeue printed an empty line, the accounting was asked and
\* its answer, stripped, was returned after two calls.
C37_Witness ==
    /\ outp.pc = "done" /\ outp.calls = 2
    /\ outp.squeue = <<"LF">>
    /\ outp.sacct = <<"R", "LF">>
    /\ outp.state = <<"R">>

====
